---- MODULE Spec2Model ----
(***************************************************************************)
(* BlurRanker: the settlement engine (lib/utils/payments.ts) and the game  *)
(* lifecycle (lib/game.ts) over the persisted tables of the schema         *)
(* (plan/phases/phase-1-foundation/pre-implementation.md).                 *)
(*                                                                         *)
(* Player, session and game ids are uuids in the program; they are opaque  *)
(* and are modelled by small integers.  Amounts are whole currency units.  *)
(***************************************************************************)
EXTENDS Integers, Sequences, FiniteSets, Bags, TLC

\* ------------------------------------------------------------------ bounds

\* Most entries of a ranking list handed to calculatePayments.
MaxRanked == 5

\* Largest position an entry of such a list may carry (one more than
\* MaxRanked, so that rankings with gaps occur).
MaxPosition == 6

\* The bet amounts tried: the two of the documented scenarios, and 0 for the
\* guard of calculatePayments.
BetAmounts == {0, 10, 200}

\* Players that may be ranked in the settlement specification.
RankedPlayers == 1..MaxRanked

\* Players of the lifecycle specification; player 1 created the session.
NumPlayers == 2
Players == 1..NumPlayers

\* Client processes that call the library concurrently.
NumClients == 2
Clients == 1..NumClients

\* Games ever created (game ids are never handed out twice).
MaxGames == 3
GameIds == 1..MaxGames

\* Library calls made in one behaviour, and storage operations that fail
\* in one behaviour for a reason outside the schema (PersistenceError).
MaxCalls == 3
MaxFaults == 1

\* Entries of a ranking list passed to submitRankings, and the largest
\* position in it (one more, so that lists with a gap occur).
MaxSubmitted == 2
MaxSubmitPosition == 2

SessionIds == {1}

\* Debt records handed to calculateSimplifiedBalances, the players they
\* name and their largest amount.
MaxDebtRecords == 3
MaxDebtPlayers == 5
MaxDebtAmount == 3
DebtPlayers == 1..MaxDebtPlayers

\* Members of the session whose standings are computed, and its games.
MaxMembers == 3
MaxPlayedGames == 2
Members == 1..MaxMembers

\* Submissions whose rows or debts the listed games show, and the debt
\* records among them that are marked paid.
MaxSubmissions == 2
MaxPaidDebts == 1

\* Changes of rows that the queries of the hooks read.
MaxMutations == 2

\* Fetches a hook has issued, beyond which its callbacks issue no further one.
MaxFetches == 3

\* `null`: no row, no result, and the game_id of a payment whose game is gone.
NULL == 0

VARIABLES
    \* --- settlement specification: one call of calculatePayments
    argRankings,        \* the list passed as `rankings`
    argBetAmount,       \* the number passed as `betAmount`
    retPayments,        \* the list the call returned
    settled,            \* whether the call has been made
    \* --- persisted tables
    sessions,           \* session id -> [creator_id, bet_amount, status]
    session_players,    \* set of [session_id, player_id, is_creator]
    games,              \* set of [id, session_id, game_number, status]
    rankings,           \* set of [game_id, player_id, position]
    payments,           \* bag of [session_id, game_id, from_player_id,
                        \*         to_player_id, amount, is_paid]
    game_confirmations, \* set of [game_id, player_id]
    nextGameId,         \* the id the next inserted game gets
    nextSessionId,      \* the id the next inserted session gets
    \* --- clients
    pc,                 \* client -> the storage step its call runs next
    call,               \* client -> arguments, locals and result of its call
    ncalls,             \* calls started so far
    nfaults,            \* storage faults so far
    \* --- simplification specification: one call of calculateSimplifiedBalances
    argPayments,        \* the list passed as `payments`
    simplifyPc,         \* "caller", "loop" (at the while test) or "returned"
    debtors,            \* list of [playerId, amount]
    creditors,          \* list of [playerId, amount]
    debtorIdx,          \* index into debtors (from 1)
    creditorIdx,        \* index into creditors (from 1)
    simplifiedPayments, \* list of [fromPlayerId, toPlayerId, amount]
    \* --- standings specification: SessionStandings and calculateSessionLeaderboard
    argSessionPlayers,  \* the list passed as `sessionPlayers` / `players` (player ids)
    argGames,           \* the list passed as `games`: [id, status, rankings, payments]
    standingsPc,        \* "caller" or "returned"
    standings,          \* the list the standings memo of SessionStandings yields
    leaderboard,        \* the list calculateSessionLeaderboard returns
    \* --- projection specification: the hooks of one client
    mutations,          \* row changes the clients have made so far
    persisted,          \* hook -> the rows its query reads now: NoRows, or the
                        \* number of the change that touched them last
    channel,            \* hook -> change events not yet handled, oldest first
    fetches,            \* hook -> fetches in flight, [seq, data, failed]
    issued,             \* hook -> fetches issued so far
    projection,         \* hook -> [data, seq]: the state the hook holds, and
                        \* the fetch that set it
    \* --- editor specification: one RankingInput component
    propSessionPlayers, \* the sessionPlayers prop: the member ids, as fetched
    propGameRankings,   \* game.rankings: the rows the game holds
    editorRankings,     \* the rankings state: a list of [player_id, position]
    isSubmitting,       \* the isSubmitting state
    onSubmitArg         \* the list last handed to onSubmit, empty before

settleVars == <<argRankings, argBetAmount, retPayments, settled>>

db == <<sessions, session_players, games, rankings, payments, game_confirmations>>

lifecycleVars == <<sessions, session_players, games, rankings, payments, game_confirmations,
                   nextGameId, nextSessionId, pc, call, ncalls, nfaults>>

simplifyVars == <<argPayments, simplifyPc, debtors, creditors, debtorIdx,
                  creditorIdx, simplifiedPayments>>

standingsVars == <<argSessionPlayers, argGames, standingsPc, standings, leaderboard>>

projectionVars == <<mutations, persisted, channel, fetches, issued, projection>>

editorVars == <<propSessionPlayers, propGameRankings, editorRankings, isSubmitting,
               onSubmitArg>>

\* What the calls of the library leave alone, and what each of the other
\* specifications leaves alone.
localVars == <<settleVars, simplifyVars, standingsVars, projectionVars, editorVars>>
exceptSettleVars == <<lifecycleVars, simplifyVars, standingsVars, projectionVars, editorVars>>
exceptSimplifyVars == <<lifecycleVars, settleVars, standingsVars, projectionVars, editorVars>>
exceptStandingsVars == <<lifecycleVars, settleVars, simplifyVars, projectionVars, editorVars>>
exceptProjectionVars == <<lifecycleVars, settleVars, simplifyVars, standingsVars, editorVars>>
exceptEditorVars == <<lifecycleVars, settleVars, simplifyVars, standingsVars, projectionVars>>

vars == <<argRankings, argBetAmount, retPayments, settled,
          sessions, session_players, games, rankings, payments,
          game_confirmations, nextGameId, nextSessionId, pc, call, ncalls, nfaults,
          argPayments, simplifyPc, debtors, creditors, debtorIdx,
          creditorIdx, simplifiedPayments,
          argSessionPlayers, argGames, standingsPc, standings, leaderboard,
          mutations, persisted, channel, fetches, issued, projection,
          propSessionPlayers, propGameRankings, editorRankings, isSubmitting,
          onSubmitArg>>

\* ------------------------------------------------- lib/utils/payments.ts

\* Array.prototype.sort with the comparator (a, b) => a.position - b.position:
\* a stable sort, so an entry goes behind every entry whose position is not
\* larger than its own.
RECURSIVE InsertByPosition(_, _)
InsertByPosition(sorted, e) ==
    IF sorted = <<>> THEN <<e>>
    ELSE IF Head(sorted).position <= e.position
         THEN <<Head(sorted)>> \o InsertByPosition(Tail(sorted), e)
         ELSE <<e>> \o sorted

\* Mutant: the list is paired in the order given, the sort forgotten.
SortByPosition_unsorted(rankingList) == rankingList

RECURSIVE SortByPosition(_)
SortByPosition(rankingList) ==
    IF rankingList = <<>> THEN <<>>
    ELSE InsertByPosition(SortByPosition(SubSeq(rankingList, 1, Len(rankingList) - 1)),
                          rankingList[Len(rankingList)])

\* Mutants of the inner loop: the payer also pays itself (j <= i); the roles
\* of payer and receiver exchanged.
PayEveryoneAbove_inclusive(sorted, i, betAmount) ==
    [j \in 1..i |->
        [from_player_id |-> sorted[i].player_id,
         to_player_id   |-> sorted[j].player_id,
         amount         |-> betAmount]]

PayEveryoneAbove_reversed(sorted, i, betAmount) ==
    [j \in 1..(i - 1) |->
        [from_player_id |-> sorted[j].player_id,
         to_player_id   |-> sorted[i].player_id,
         amount         |-> betAmount]]

\* The inner loop of calculatePayments for the payer at (1-based) index i:
\* one record to each entry in front of it, in order.
PayEveryoneAbove(sorted, i, betAmount) ==
    [j \in 1..(i - 1) |->
        [from_player_id |-> sorted[i].player_id,
         to_player_id   |-> sorted[j].player_id,
         amount         |-> betAmount]]

\* The outer loop: payers at indices 2..i, the records pushed in that order.
RECURSIVE PaymentsOfPayersUpTo(_, _, _)
PaymentsOfPayersUpTo(sorted, i, betAmount) ==
    IF i < 2 THEN <<>>
    ELSE PaymentsOfPayersUpTo(sorted, i - 1, betAmount)
         \o PayEveryoneAbove(sorted, i, betAmount)

\* Mutant: the entries are paired in the order given, without the sort.
calculatePayments_inputOrder(rankingList, betAmount) ==
    IF Len(rankingList) < 2 \/ betAmount <= 0 THEN <<>>
    ELSE PaymentsOfPayersUpTo(rankingList, Len(rankingList), betAmount)

calculatePayments(rankingList, betAmount) ==
    IF Len(rankingList) < 2 \/ betAmount <= 0 THEN <<>>
    ELSE PaymentsOfPayersUpTo(SortByPosition(rankingList), Len(rankingList), betAmount)

\* payment.is_paid of a record that may lack the optional field.
IsPaid(payment) ==
    IF "is_paid" \in DOMAIN payment THEN payment.is_paid ELSE FALSE

\* Mutant: only what the player receives is counted.
RECURSIVE calculatePlayerBalance_receivedOnly(_, _, _)
calculatePlayerBalance_receivedOnly(playerId, paymentList, onlyUnpaid) ==
    IF paymentList = <<>> THEN 0
    ELSE LET payment == paymentList[Len(paymentList)]
             balance == calculatePlayerBalance_receivedOnly(
                            playerId,
                            SubSeq(paymentList, 1, Len(paymentList) - 1),
                            onlyUnpaid)
         IN  IF onlyUnpaid /\ IsPaid(payment) THEN balance
             ELSE balance
                  + (IF payment.to_player_id = playerId THEN payment.amount ELSE 0)

RECURSIVE calculatePlayerBalance(_, _, _)
calculatePlayerBalance(playerId, paymentList, onlyUnpaid) ==
    IF paymentList = <<>> THEN 0
    ELSE LET payment == paymentList[Len(paymentList)]
             balance == calculatePlayerBalance(
                            playerId,
                            SubSeq(paymentList, 1, Len(paymentList) - 1),
                            onlyUnpaid)
         IN  IF onlyUnpaid /\ IsPaid(payment) THEN balance
             ELSE balance
                  + (IF payment.to_player_id = playerId THEN payment.amount ELSE 0)
                  - (IF payment.from_player_id = playerId THEN payment.amount ELSE 0)

\* ------------------------------------------------------ JavaScript numbers
\* payment.amount, the balances and the amounts of calculateSimplifiedBalances
\* are JavaScript numbers: binary floating point with a significand of 53
\* bits, sums and differences rounded to the nearest such number, ties to
\* the even significand.  A number is held exactly, as a sign and a whole
\* count of units of 2^-56 in two limbs of 30 bits:
\*     value = (neg ? -1 : 1) * (hi * 2^30 + lo) * 2^-56
\* which holds every number the calls below meet (0, and 2^-56 up to 31).

Limb == 1073741824

\* hi of the least count that has more than 53 bits (2^53 = 2^23 * 2^30).
WideHi == 8388608

\* hi of the count of 1 (2^56 = 2^26 * 2^30).
OneHi == 67108864

Zero == [neg |-> FALSE, hi |-> 0, lo |-> 0]

\* The whole number k.
Whole(k) == [neg |-> FALSE, hi |-> k * OneHi, lo |-> 0]

\* The numbers a JSON parser yields for 0.1, 0.2, 0.3, 0.4 and 0.5: the
\* nearest number with 53 bits each (0.1 is 7205759403792794 * 2^-56).
TenthNumbers ==
    <<[neg |-> FALSE, hi |-> 6710886, lo |-> 429496730],
      [neg |-> FALSE, hi |-> 13421772, lo |-> 858993460],
      [neg |-> FALSE, hi |-> 20132659, lo |-> 214748364],
      [neg |-> FALSE, hi |-> 26843545, lo |-> 644245096],
      [neg |-> FALSE, hi |-> 33554432, lo |-> 0]>>

Tenths(k) == TenthNumbers[k]

IsZero(x) == x.hi = 0 /\ x.lo = 0
IsNegative(x) == x.neg /\ ~IsZero(x)
IsPositive(x) == ~x.neg /\ ~IsZero(x)

\* Math.abs(x), and -x
Abs(x) == [x EXCEPT !.neg = FALSE]
Negated(x) == IF IsZero(x) THEN x ELSE [x EXCEPT !.neg = ~x.neg]

\* |x| < |y|, and x < y
MagnitudeLess(x, y) == x.hi < y.hi \/ (x.hi = y.hi /\ x.lo < y.lo)
NumberLess(x, y) ==
    IF IsNegative(x)
    THEN ~IsNegative(y) \/ MagnitudeLess(y, x)
    ELSE ~IsNegative(y) /\ MagnitudeLess(x, y)

\* The sum of two numbers before it is rounded.
SumOfCounts(x, y) ==
    IF x.neg = y.neg
    THEN LET lo == x.lo + y.lo
         IN  [neg |-> x.neg, hi |-> x.hi + y.hi + (lo \div Limb), lo |-> lo % Limb]
    ELSE LET big == IF MagnitudeLess(x, y) THEN y ELSE x
             small == IF MagnitudeLess(x, y) THEN x ELSE y
             lo == big.lo - small.lo
             borrow == IF lo < 0 THEN 1 ELSE 0
             hi == big.hi - small.hi - borrow
         IN  [neg |-> big.neg /\ ~(hi = 0 /\ lo = 0),
              hi |-> hi, lo |-> lo + borrow * Limb]

\* The same, with each operand evaluated once.
ExactSum(x, y) == CHOOSE z \in {SumOfCounts(a, b) : a \in {x}, b \in {y}} : TRUE

\* The spacing of the numbers around a count with this hi: 1 up to 53 bits,
\* doubling with every further bit.
RECURSIVE Spacing(_)
Spacing(hi) == IF hi < WideHi THEN 1 ELSE 2 * Spacing(hi \div 2)

\* The nearest number with 53 bits, ties to the even significand.
NearestNumber(x) ==
    LET g == Spacing(x.hi)
        q == x.lo \div g
        r == x.lo % g
        up == 2 * r > g \/ (2 * r = g /\ q % 2 = 1)
        lo == (IF up THEN q + 1 ELSE q) * g
    IN  [neg |-> x.neg, hi |-> x.hi + (lo \div Limb), lo |-> lo % Limb]

Rounded(x) == CHOOSE z \in {NearestNumber(a) : a \in {x}} : TRUE

\* x + y and x - y
Plus(x, y) == Rounded(ExactSum(x, y))
Minus(x, y) == Rounded(ExactSum(x, Negated(y)))

\* --------------------------------------------------------- lib/payment.ts
\* calculateSimplifiedBalances (lines 171-233)

\* balances: a Map, which keeps its keys in the order of their first set;
\* a list of [playerId, balance].  balances.get(playerId) || 0, and
\* balances.set(playerId, value).
BalanceOf(balances, playerId) ==
    IF \E i \in DOMAIN balances : balances[i].playerId = playerId
    THEN balances[CHOOSE i \in DOMAIN balances : balances[i].playerId = playerId].balance
    ELSE Zero

SetBalance(balances, playerId, value) ==
    IF \E i \in DOMAIN balances : balances[i].playerId = playerId
    THEN [i \in DOMAIN balances |->
             IF balances[i].playerId = playerId
             THEN [balances[i] EXCEPT !.balance = value] ELSE balances[i]]
    ELSE Append(balances, [playerId |-> playerId, balance |-> value])

\* Mutant: paid records are counted too.
RECURSIVE NetBalances_countsPaid(_, _)
NetBalances_countsPaid(paymentList, n) ==
    IF n = 0 THEN <<>>
    ELSE LET before == NetBalances_countsPaid(paymentList, n - 1)
             payment == paymentList[n]
             afterPayer == SetBalance(before, payment.from_player_id,
                               Minus(BalanceOf(before, payment.from_player_id),
                                     payment.amount))
         IN  SetBalance(afterPayer, payment.to_player_id,
                 Plus(BalanceOf(afterPayer, payment.to_player_id), payment.amount))

\* The map after the first loop has gone through the first n payments
\* (lines 177-187).
RECURSIVE NetBalances(_, _)
NetBalances(paymentList, n) ==
    IF n = 0 THEN <<>>
    ELSE LET before == NetBalances(paymentList, n - 1)
             payment == paymentList[n]
         IN  IF payment.is_paid THEN before
             ELSE LET afterPayer ==
                          SetBalance(before, payment.from_player_id,
                              Minus(BalanceOf(before, payment.from_player_id),
                                    payment.amount))
                  IN  SetBalance(afterPayer, payment.to_player_id,
                          Plus(BalanceOf(afterPayer, payment.to_player_id),
                               payment.amount))

\* debtors and creditors as the second loop pushes them (lines 190-199).
RECURSIVE Debtors(_)
Debtors(balances) ==
    IF balances = <<>> THEN <<>>
    ELSE LET e == Head(balances)
         IN  (IF IsNegative(e.balance)
              THEN <<[playerId |-> e.playerId, amount |-> Abs(e.balance)]>> ELSE <<>>)
             \o Debtors(Tail(balances))

\* Mutant: every player with a balance other than 0 is a creditor.
RECURSIVE Creditors_anyNonZero(_)
Creditors_anyNonZero(balances) ==
    IF balances = <<>> THEN <<>>
    ELSE LET e == Head(balances)
         IN  (IF ~IsZero(e.balance)
              THEN <<[playerId |-> e.playerId, amount |-> Abs(e.balance)]>>
              ELSE <<>>)
             \o Creditors_anyNonZero(Tail(balances))

RECURSIVE Creditors(_)
Creditors(balances) ==
    IF balances = <<>> THEN <<>>
    ELSE LET e == Head(balances)
         IN  (IF IsPositive(e.balance)
              THEN <<[playerId |-> e.playerId, amount |-> e.balance]>> ELSE <<>>)
             \o Creditors(Tail(balances))

\* sort((a, b) => b.amount - a.amount): stable, largest amount first.
InsertByAmount(sorted, e) ==
    LET ahead == {i \in DOMAIN sorted : ~NumberLess(sorted[i].amount, e.amount)}
        k == Cardinality(ahead)
    IN  SubSeq(sorted, 1, k) \o <<e>> \o SubSeq(sorted, k + 1, Len(sorted))

RECURSIVE SortByAmountDescending(_)
SortByAmountDescending(list) ==
    IF list = <<>> THEN <<>>
    ELSE InsertByAmount(SortByAmountDescending(SubSeq(list, 1, Len(list) - 1)),
                        list[Len(list)])

\* No call of calculateSimplifiedBalances is made.
SimplifyIdle ==
    /\ argPayments = <<>>
    /\ simplifyPc = "caller"
    /\ debtors = <<>>
    /\ creditors = <<>>
    /\ debtorIdx = 1
    /\ creditorIdx = 1
    /\ simplifiedPayments = <<>>

\* Lines 171-206: the function is entered and runs up to the while test.
calculateSimplifiedBalances_Enter ==
    /\ simplifyPc = "caller"
    /\ LET balances == NetBalances(argPayments, Len(argPayments))
       IN  /\ debtors' = SortByAmountDescending(Debtors(balances))
           /\ creditors' = SortByAmountDescending(Creditors(balances))
    /\ debtorIdx' = 1
    /\ creditorIdx' = 1
    /\ simplifiedPayments' = <<>>
    /\ simplifyPc' = "loop"
    /\ UNCHANGED argPayments
    /\ UNCHANGED exceptSimplifyVars

\* Lines 208-230: one pass through the body of the while loop.
calculateSimplifiedBalances_Loop ==
    /\ simplifyPc = "loop"
    /\ debtorIdx <= Len(debtors) /\ creditorIdx <= Len(creditors)
    /\ LET debtor == debtors[debtorIdx]
           creditor == creditors[creditorIdx]
           amount == IF NumberLess(creditor.amount, debtor.amount)
                     THEN creditor.amount ELSE debtor.amount
       IN  /\ simplifiedPayments' =
                  IF IsPositive(amount)
                  THEN Append(simplifiedPayments,
                              [fromPlayerId |-> debtor.playerId,
                               toPlayerId |-> creditor.playerId,
                               amount |-> amount])
                  ELSE simplifiedPayments
           /\ debtors' = [debtors EXCEPT ![debtorIdx].amount = Minus(@, amount)]
           /\ creditors' = [creditors EXCEPT ![creditorIdx].amount = Minus(@, amount)]
           /\ debtorIdx' = IF IsZero(Minus(debtor.amount, amount))
                           THEN debtorIdx + 1 ELSE debtorIdx
           /\ creditorIdx' = IF IsZero(Minus(creditor.amount, amount))
                             THEN creditorIdx + 1 ELSE creditorIdx
    /\ UNCHANGED <<argPayments, simplifyPc>>
    /\ UNCHANGED exceptSimplifyVars

\* Lines 208 and 232: the while test fails and the list is returned.
calculateSimplifiedBalances_Return ==
    /\ simplifyPc = "loop"
    /\ ~(debtorIdx <= Len(debtors) /\ creditorIdx <= Len(creditors))
    /\ simplifyPc' = "returned"
    /\ UNCHANGED <<argPayments, debtors, creditors, debtorIdx, creditorIdx,
                   simplifiedPayments>>
    /\ UNCHANGED exceptSimplifyVars

\* ------------------------- lib/game.ts and components/session/SessionStandings.tsx
\* calculatePlayerSessionStats (lines 352-421), calculateSessionLeaderboard
\* (lines 426-475), SessionStandings: the standings memo (lines 34-69)

\* Array.prototype.sort with a comparator: stable.  After(x, y) is
\* compare(x, y) > 0.  An entry is preceded by the entries listed before it
\* that need not come after it and by the entries listed behind it that it
\* must come after.
StableSort(list, After(_, _)) ==
    LET place(i) ==
            1 + Cardinality({j \in DOMAIN list :
                                \/ j < i /\ ~After(list[j], list[i])
                                \/ j > i /\ After(list[i], list[j])})
    IN  [k \in DOMAIN list |-> list[CHOOSE i \in DOMAIN list : place(i) = k]]

RECURSIVE SumOf(_)
SumOf(numbers) == IF numbers = <<>> THEN 0 ELSE Head(numbers) + SumOf(Tail(numbers))

RECURSIVE Flatten(_)
Flatten(lists) == IF lists = <<>> THEN <<>> ELSE Head(lists) \o Flatten(Tail(lists))

\* games.filter((g) => g.status === 'completed')
CompletedGames(gameList) == SelectSeq(gameList, LAMBDA g : g.status = "completed")

\* averagePosition is totalPositions / gamesPlayed, 0 without games; the
\* quotient is kept as its two terms and compared as a fraction.
AveragePositionLess(a, b) ==
    LET da == IF a.gamesPlayed = 0 THEN 1 ELSE a.gamesPlayed
        db_ == IF b.gamesPlayed = 0 THEN 1 ELSE b.gamesPlayed
    IN  a.totalPositions * db_ < b.totalPositions * da

\* calculatePlayerSessionStats, the fields calculateSessionLeaderboard keeps.
calculatePlayerSessionStats(playerId, allRankings, paymentList) ==
    LET playerRankings == SelectSeq(allRankings, LAMBDA r : r.player_id = playerId)
        gamesPlayed == Len(playerRankings)
    IN  IF gamesPlayed = 0
        THEN [playerId |-> playerId, gamesPlayed |-> 0, wins |-> 0, netProfit |-> 0,
              totalPositions |-> 0]
        ELSE [playerId |-> playerId,
              gamesPlayed |-> gamesPlayed,
              wins |-> Len(SelectSeq(playerRankings, LAMBDA r : r.position = 1)),
              netProfit |->
                  SumOf([i \in DOMAIN paymentList |->
                            IF paymentList[i].to_player_id = playerId
                            THEN paymentList[i].amount ELSE 0])
                  - SumOf([i \in DOMAIN paymentList |->
                            IF paymentList[i].from_player_id = playerId
                            THEN paymentList[i].amount ELSE 0]),
              totalPositions |->
                  SumOf([i \in DOMAIN playerRankings |-> playerRankings[i].position])]

\* The comparator of calculateSessionLeaderboard (lines 468-473), > 0.
LeaderboardAfter(a, b) ==
    IF b.netProfit # a.netProfit THEN b.netProfit - a.netProfit > 0
    ELSE IF b.wins # a.wins THEN b.wins - a.wins > 0
    ELSE AveragePositionLess(b, a)

calculateSessionLeaderboard(players, gameList, paymentList) ==
    LET completed == CompletedGames(gameList)
        allRankings == Flatten([i \in DOMAIN completed |-> completed[i].rankings])
    IN  StableSort([i \in DOMAIN players |->
                       calculatePlayerSessionStats(players[i], allRankings, paymentList)],
                   LeaderboardAfter)

\* One entry of playerStandings (lines 37-63); its totalBalance is kept in
\* the field netProfit, so that both lists have entries of one shape.
RECURSIVE PlayerStanding(_, _)
PlayerStanding(playerId, completedGames) ==
    IF completedGames = <<>>
    THEN [playerId |-> playerId, netProfit |-> 0, gamesPlayed |-> 0, wins |-> 0,
          totalPositions |-> 0]
    ELSE LET sofar == PlayerStanding(playerId,
                          SubSeq(completedGames, 1, Len(completedGames) - 1))
             game == completedGames[Len(completedGames)]
             found == SelectSeq(game.rankings, LAMBDA r : r.player_id = playerId)
         IN  IF found = <<>> THEN sofar
             ELSE [playerId |-> playerId,
                   netProfit |-> sofar.netProfit +
                       calculatePlayerBalance(playerId, game.payments, FALSE),
                   gamesPlayed |-> sofar.gamesPlayed + 1,
                   wins |-> sofar.wins + (IF found[1].position = 1 THEN 1 ELSE 0),
                   totalPositions |-> sofar.totalPositions + found[1].position]

\* The comparator of the standings memo (line 66), > 0.
StandingsAfter(a, b) == b.netProfit - a.netProfit > 0

SessionStandings(sessionPlayers, gameList) ==
    LET completedGames == CompletedGames(gameList)
    IN  StableSort([i \in DOMAIN sessionPlayers |->
                       PlayerStanding(sessionPlayers[i], completedGames)],
                   StandingsAfter)

\* Neither is being computed.
StandingsIdle ==
    /\ argSessionPlayers = <<>>
    /\ argGames = <<>>
    /\ standingsPc = "caller"
    /\ standings = <<>>
    /\ leaderboard = <<>>

\* ------------------------------------ lib/hooks: useGames, usePayments
\* useGames (app/player/[id]/page.tsx 445-541), useSessionPayments
\* (hooks/usePayments 17-80), usePlayerPayments (hooks/usePayments 160-229)

Hooks == {"useGames", "useSessionPayments", "usePlayerPayments"}

\* data of a fetch whose query the storage has not run yet
Unread == -1

\* The empty list: the state a hook starts with (useState([])), what a query
\* yields when no row is in its scope, and what getSessionGames,
\* getSessionPayments and getPlayerPayments return when their query fails
\* (lib/game.ts 82-85, lib/payment.ts 28-31, 54-57).
NoRows == -2

\* The tables the hooks subscribe to; their queries read these and players.
Tables == {"games", "rankings", "game_confirmations", "payments"}

\* What a fresh read of the hook's scope yields.  getSessionGames reads the
\* session's games, each with its rankings and confirmations (and their
\* players rows) and its payments; getSessionPayments the session's
\* payments, each with its game and the players rows of payer and payee;
\* getPlayerPayments the same for the payments that name the player.  Rows
\* that were changed are stood for by the number of the change.
FreshRead(h) == persisted[h]

\* The tables whose changes the hook subscribes to: useGames to the four
\* (lines 489-536), the payment hooks to payments (usePayments 61-75,
\* 204-224); none to players.
Subscribed(h, table) ==
    /\ table \in Tables
    /\ h = "useGames" \/ table = "payments"

\* The subscription handler of the hook, given a postgres_changes event of
\* the payments table: useGames (lines 482-535) and useSessionPayments (lines
\* 62-73) re-fetch on every event; usePlayerPayments (lines 213-222) reads
\* payload.new, which holds the row for INSERT and UPDATE and is empty for
\* DELETE, and re-fetches if the row names the player.
HandlerRefetches(h, event) ==
    \/ h # "usePlayerPayments"
    \/ event.type # "DELETE" /\ event.namesPlayer

\* No hook is mounted.
ProjectionIdle ==
    /\ mutations = 0
    /\ persisted = [h \in Hooks |-> 0]
    /\ channel = [h \in Hooks |-> <<>>]
    /\ fetches = [h \in Hooks |-> {}]
    /\ issued = [h \in Hooks |-> 0]
    /\ projection = [h \in Hooks |-> [data |-> NoRows, seq |-> 0]]

\* A hook is mounted once its useEffect has called the fetch and subscribed.
Mounted(h) == issued[h] >= 1

\* useEffect of the page the client shows: one of the hooks is mounted, has
\* called its fetch and has subscribed.  The scope of each query holds rows
\* or none (a session before its first game, or its first debt).
ProjectionMounted ==
    \E m \in Hooks :
        /\ mutations = 0
        /\ persisted \in [Hooks -> {NoRows, 0}]
        /\ channel = [h \in Hooks |-> <<>>]
        /\ fetches = [h \in Hooks |->
                         IF h = m THEN {[seq |-> 1, data |-> Unread, failed |-> FALSE]}
                         ELSE {}]
        /\ issued = [h \in Hooks |-> IF h = m THEN 1 ELSE 0]
        /\ projection = [h \in Hooks |-> [data |-> NoRows, seq |-> 0]]

\* The hooks whose query may read a row of the table that is inserted,
\* updated or deleted.  A games row of the session is read by useGames, and
\* by the payment hooks if a payment they read points to the game, which no
\* payment does when the game is inserted.  Rankings and confirmations are
\* read by useGames alone.  A payments row of the session is read by
\* useSessionPayments, by usePlayerPayments if it names the player, and by
\* useGames if its game exists (game_id is NULL once the game is deleted).
\* A players row is updated (updatePlayerName, getOrCreatePlayer,
\* lib/utils/payments.ts 183-274) and is read by every hook whose rows embed
\* it.
MayRead(table, type) ==
    CASE table = "games" ->
            IF type = "INSERT" THEN {{"useGames"}}
            ELSE {R \in SUBSET Hooks :
                     /\ "useGames" \in R
                     /\ "usePlayerPayments" \in R => "useSessionPayments" \in R}
      [] table \in {"rankings", "game_confirmations"} -> {{"useGames"}}
      [] table = "payments" ->
            {R \in SUBSET Hooks : "useSessionPayments" \in R}
      [] table = "players" ->
            IF type = "UPDATE" THEN SUBSET Hooks \ {{}} ELSE {}

\* What the query of hook h reads after the change numbered k of a row it
\* reads.  The query selects from games (useGames) or payments (the payment
\* hooks) and embeds the rows of the other tables.  An update or a delete
\* needs the row, and an insert into an embedded table the row that embeds
\* it, to be in the scope; the delete of a row selected from may leave the
\* scope empty.
ReadAfter(h, table, type, k) ==
    IF table = (IF h = "useGames" THEN "games" ELSE "payments")
    THEN CASE type = "INSERT" -> {k}
           [] type = "UPDATE" -> IF persisted[h] = NoRows THEN {} ELSE {k}
           [] type = "DELETE" -> IF persisted[h] = NoRows THEN {} ELSE {k, NoRows}
    ELSE IF persisted[h] = NoRows THEN {} ELSE {k}

\* Some client inserts, updates or deletes a row that a query of the hooks
\* reads.  Every mounted hook subscribed to the table gets the event; the
\* payload of a payments event names the player or not.
Mutate ==
    /\ mutations < MaxMutations
    /\ mutations' = mutations + 1
    /\ \E table \in Tables \cup {"players"}, type \in {"INSERT", "UPDATE", "DELETE"} :
        \E readBy \in MayRead(table, type) :
            /\ \E after \in [readBy -> {NoRows} \cup 1..MaxMutations] :
                /\ \A h \in readBy :
                      after[h] \in ReadAfter(h, table, type, mutations + 1)
                /\ persisted' = [h \in Hooks |->
                                    IF h \in readBy THEN after[h] ELSE persisted[h]]
            /\ channel' = [h \in Hooks |->
                              IF Mounted(h) /\ Subscribed(h, table)
                              THEN Append(channel[h],
                                       [type |-> type,
                                        namesPlayer |-> /\ table = "payments"
                                                        /\ "usePlayerPayments" \in readBy])
                              ELSE channel[h]]
    /\ UNCHANGED <<fetches, issued, projection>>
    /\ UNCHANGED exceptProjectionVars

\* The hook's handler runs for its oldest event: fetchGamesSilent /
\* fetchPaymentsSilent is called, or the event is dropped.
HandleEvent(h) ==
    /\ channel[h] # <<>>
    /\ channel' = [channel EXCEPT ![h] = Tail(@)]
    /\ IF HandlerRefetches(h, Head(channel[h]))
       THEN /\ issued' = [issued EXCEPT ![h] = @ + 1]
            /\ fetches' = [fetches EXCEPT
                              ![h] = @ \cup {[seq |-> issued[h] + 1, data |-> Unread,
                                              failed |-> FALSE]}]
       ELSE UNCHANGED <<issued, fetches>>
    /\ UNCHANGED <<mutations, persisted, projection>>
    /\ UNCHANGED exceptProjectionVars

\* A callback of the hook calls the fetch without an event: create, submit,
\* confirm, unconfirm and remove of useGames (page.tsx 543-600), markPaid,
\* markUnpaid and markAllPaidBetweenPlayers of the payment hooks (usePayments
\* 82-118, 231-250) after their library call returned success, a change made
\* or not; and refresh.  The hook issues MaxFetches fetches at most this way.
CallbackFetch(h) ==
    /\ Mounted(h)
    /\ issued[h] < MaxFetches
    /\ issued' = [issued EXCEPT ![h] = @ + 1]
    /\ fetches' = [fetches EXCEPT
                      ![h] = @ \cup {[seq |-> issued[h] + 1, data |-> Unread,
                                      failed |-> FALSE]}]
    /\ UNCHANGED <<mutations, persisted, channel, projection>>
    /\ UNCHANGED exceptProjectionVars

\* The storage runs the query of a fetch in flight, or fails to: the
\* library function then returns the empty list.
RunQuery(h) ==
    /\ \E f \in fetches[h], ok \in BOOLEAN :
        /\ f.data = Unread
        /\ fetches' = [fetches EXCEPT
                          ![h] = (@ \ {f}) \cup
                                 {[f EXCEPT !.data = IF ok THEN FreshRead(h) ELSE NoRows,
                                            !.failed = ~ok]}]
    /\ UNCHANGED <<mutations, persisted, channel, issued, projection>>
    /\ UNCHANGED exceptProjectionVars

\* The await of a fetch returns: setGames(data) / setPayments(data).
SetData(h) ==
    /\ \E f \in fetches[h] :
        /\ f.data # Unread
        /\ projection' = [projection EXCEPT ![h] = [data |-> f.data, seq |-> f.seq]]
        /\ fetches' = [fetches EXCEPT ![h] = @ \ {f}]
    /\ UNCHANGED <<mutations, persisted, channel, issued>>
    /\ UNCHANGED exceptProjectionVars

\* ------------------------------------ components/game/RankingInput.tsx

\* No editor is open.
EditorIdle ==
    /\ propSessionPlayers = <<>>
    /\ propGameRankings = {}
    /\ editorRankings = <<>>
    /\ isSubmitting = FALSE
    /\ onSubmitArg = <<>>

\* GameList renders the component while it edits a game (GameList 93-118);
\* the session it lists has a member.
EditorOpen == propSessionPlayers # <<>>

\* game.rankings.find((r) => r.player_id === playerId)?.position ?? null
ExistingPosition(playerId) ==
    IF \E r \in propGameRankings : r.player_id = playerId
    THEN (CHOOSE r \in propGameRankings : r.player_id = playerId).position
    ELSE NULL

\* The initial rankings state (lines 36-45): one entry per listed member.
InitialRankings ==
    [i \in DOMAIN propSessionPlayers |->
        [player_id |-> propSessionPlayers[i],
         position |-> ExistingPosition(propSessionPlayers[i])]]

\* isComplete (lines 67-70)
isComplete == \A i \in DOMAIN editorRankings : editorRankings[i].position # NULL

\* assignPosition (lines 47-59) from a position button (lines 160-180): the
\* buttons carry the positions 1..sessionPlayers.length.  The update is
\* applied to the latest state, which may already hold the position for
\* another player, or a position for this one, when the click was made on an
\* earlier rendering.  The buttons stay enabled while onSubmit is pending.
assignPosition ==
    /\ EditorOpen
    /\ \E i \in DOMAIN editorRankings, position \in 1..Len(propSessionPlayers) :
        LET playerId == editorRankings[i].player_id
            updated == [j \in DOMAIN editorRankings |->
                           IF editorRankings[j].position = position
                           THEN [editorRankings[j] EXCEPT !.position = NULL]
                           ELSE editorRankings[j]]
        IN  editorRankings' = [j \in DOMAIN updated |->
                                  IF updated[j].player_id = playerId
                                  THEN [updated[j] EXCEPT !.position = position]
                                  ELSE updated[j]]
    /\ UNCHANGED <<propSessionPlayers, propGameRankings, isSubmitting, onSubmitArg>>
    /\ UNCHANGED exceptEditorVars

\* clearPosition (lines 61-65) from the Clear button (lines 150-156)
clearPosition ==
    /\ EditorOpen
    /\ \E i \in DOMAIN editorRankings :
        LET playerId == editorRankings[i].player_id
        IN  editorRankings' = [j \in DOMAIN editorRankings |->
                                  IF editorRankings[j].player_id = playerId
                                  THEN [editorRankings[j] EXCEPT !.position = NULL]
                                  ELSE editorRankings[j]]
    /\ UNCHANGED <<propSessionPlayers, propGameRankings, isSubmitting, onSubmitArg>>
    /\ UNCHANGED exceptEditorVars

\* handleSubmit (lines 98-104) up to its await, from the submit button, which
\* is disabled while isSubmitting (line 255)
handleSubmit ==
    /\ EditorOpen
    /\ ~isSubmitting
    /\ isComplete
    /\ isSubmitting' = TRUE
    /\ onSubmitArg' = [i \in DOMAIN editorRankings |->
                          [player_id |-> editorRankings[i].player_id,
                           position |-> editorRankings[i].position]]
    /\ UNCHANGED <<propSessionPlayers, propGameRankings, editorRankings>>
    /\ UNCHANGED exceptEditorVars

\* The component is taken off the page: GameList stops editing the game
\* (setEditingGameId(null), GameList 52-54 and 89-91) or the game is gone
\* from the fetched games (GameList 93-95).
EditorClosed ==
    /\ propSessionPlayers' = <<>>
    /\ propGameRankings' = {}
    /\ editorRankings' = <<>>
    /\ isSubmitting' = FALSE
    /\ onSubmitArg' = <<>>

\* handleSubmit (lines 105-111) after its await: onSubmit returned.  On
\* success GameList has stopped editing the game (GameList 51-55); on
\* failure the component stays, with its rankings state, and can submit
\* again.
handleSubmit_Returned ==
    /\ EditorOpen
    /\ isSubmitting
    /\ \E success \in BOOLEAN :
        IF success
        THEN EditorClosed
        ELSE /\ isSubmitting' = FALSE
             /\ UNCHANGED <<propSessionPlayers, propGameRankings, editorRankings,
                            onSubmitArg>>
    /\ UNCHANGED exceptEditorVars

\* The Cancel buttons (lines 121-123, 252-254), or the game is deleted.
onCancel ==
    /\ EditorOpen
    /\ EditorClosed
    /\ UNCHANGED exceptEditorVars

\* ------------------------------------------------------ persisted tables
\* plan/phases/phase-1-foundation/pre-implementation.md, section 1.2

\* bag of the elements of a list
RECURSIVE SeqToBag(_)
SeqToBag(list) ==
    IF list = <<>> THEN EmptyBag
    ELSE SeqToBag(Tail(list)) (+) SetToBag({Head(list)})

\* sum of the copies a bag holds of the rows of a set
RECURSIVE CopiesOfAll(_, _)
CopiesOfAll(bag, rows) ==
    IF rows = {} THEN 0
    ELSE LET r == CHOOSE x \in rows : TRUE
         IN  CopiesIn(r, bag) + CopiesOfAll(bag, rows \ {r})

\* .from('games').select(...).eq('id', gameId).single(): whether it yields a
\* row (data is not null), and the row.
GameExists(gameId) == \E g \in games : g.id = gameId
GameById(gameId) == CHOOSE g \in games : g.id = gameId

RankingsOfGame(gameId) == {r \in rankings : r.game_id = gameId}

PaymentsOfGame(gameId) ==
    [r \in {x \in DOMAIN payments : x.game_id = gameId} |-> payments[r]]

ConfirmationsOfGame(gameId) == {k \in game_confirmations : k.game_id = gameId}

\* .delete().eq('game_id', gameId) on payments
PaymentsWithoutGame(gameId) ==
    [r \in {x \in DOMAIN payments : x.game_id # gameId} |-> payments[r]]

\* payments.game_id references games(id) on delete set null
PaymentsGameSetNull(gameId) ==
    LET orphan(r) == IF r.game_id = gameId THEN [r EXCEPT !.game_id = NULL] ELSE r
        rows == {orphan(r) : r \in DOMAIN payments}
    IN  [n \in rows |-> CopiesOfAll(payments, {r \in DOMAIN payments : orphan(r) = n})]

\* rankings: game_id references games(id); check (position > 0);
\* unique (game_id, player_id); unique (game_id, position).  One insert
\* statement stores all of its rows or none.
RankingRows(gameId, rankingList) ==
    {[game_id |-> gameId,
      player_id |-> rankingList[i].player_id,
      position |-> rankingList[i].position] : i \in DOMAIN rankingList}

RankingsInsertAllowed(gameId, rankingList) ==
    /\ GameExists(gameId)
    /\ \A i \in DOMAIN rankingList : rankingList[i].position > 0
    /\ \A i, j \in DOMAIN rankingList :
          i # j => /\ rankingList[i].player_id # rankingList[j].player_id
                   /\ rankingList[i].position # rankingList[j].position
    /\ \A i \in DOMAIN rankingList : \A r \in RankingsOfGame(gameId) :
          /\ r.player_id # rankingList[i].player_id
          /\ r.position # rankingList[i].position

\* payments: session_id and game_id reference their tables; check (amount > 0);
\* is_paid defaults to false, paid_at to null.
PaymentRecords(sessionId, gameId, paymentList) ==
    [i \in DOMAIN paymentList |->
        [session_id |-> sessionId,
         game_id |-> gameId,
         from_player_id |-> paymentList[i].from_player_id,
         to_player_id |-> paymentList[i].to_player_id,
         amount |-> paymentList[i].amount,
         is_paid |-> FALSE,
         paid_at |-> NULL]]

PaymentsInsertAllowed(sessionId, gameId, paymentList) ==
    /\ sessionId \in DOMAIN sessions
    /\ GameExists(gameId)
    /\ \A i \in DOMAIN paymentList : paymentList[i].amount > 0

\* Mutant: the table has no unique (session_id, game_number).
GamesInsertAllowed_noUnique(sessionId, gameNumber) ==
    sessionId \in DOMAIN sessions

\* games: unique (session_id, game_number); status defaults to 'pending'.
GamesInsertAllowed(sessionId, gameNumber) ==
    /\ sessionId \in DOMAIN sessions
    /\ \A g \in games : ~(g.session_id = sessionId /\ g.game_number = gameNumber)

\* game_confirmations: primary key (game_id, player_id); game_id references games.
ConfirmationInsertAllowed(gameId, playerId) ==
    /\ GameExists(gameId)
    /\ [game_id |-> gameId, player_id |-> playerId] \notin game_confirmations

\* games(id) deleted: rankings and game_confirmations cascade.
GamesWithout(gameId) == {g \in games : g.id # gameId}
RankingsWithoutGame(gameId) == {r \in rankings : r.game_id # gameId}
ConfirmationsWithoutGame(gameId) == {k \in game_confirmations : k.game_id # gameId}

\* .from('sessions').select(...).eq('id', sessionId).single(): the row, null
\* if there is none.
SessionById(sessionId) ==
    IF sessionId \in DOMAIN sessions THEN sessions[sessionId] ELSE NULL

\* .from('session_players').select('*').eq('session_id', sessionId)
\* .eq('player_id', playerId).single(): whether it yields a row.
MembershipExists(sessionId, playerId) ==
    \E r \in session_players : r.session_id = sessionId /\ r.player_id = playerId

\* session_players: primary key (session_id, player_id); session_id
\* references sessions.
MembershipInsertAllowed(sessionId, playerId) ==
    /\ sessionId \in DOMAIN sessions
    /\ ~MembershipExists(sessionId, playerId)

\* sessions: check (bet_amount > 0); status defaults to 'active'.
SessionsInsertAllowed(betAmount) == betAmount > 0

\* sessions(id) deleted: session_players, games and payments cascade, and
\* with the games their rankings and confirmations.
SessionsWithout(sessionId) == [s \in DOMAIN sessions \ {sessionId} |-> sessions[s]]
MembershipsWithoutSession(sessionId) == {r \in session_players : r.session_id # sessionId}
GamesWithoutSession(sessionId) == {g \in games : g.session_id # sessionId}
RankingsWithoutSession(sessionId) ==
    {r \in rankings : \E g \in GamesWithoutSession(sessionId) : g.id = r.game_id}
ConfirmationsWithoutSession(sessionId) ==
    {k \in game_confirmations : \E g \in GamesWithoutSession(sessionId) : g.id = k.game_id}
PaymentsWithoutSession(sessionId) ==
    [r \in {x \in DOMAIN payments : x.session_id # sessionId} |-> payments[r]]

\* ------------------------------------------------------------- lib/game.ts

\* Mutant: the creator test passes for every player.
IsCreator_anyone(session, creatorId) == TRUE

\* session.creator_id !== creatorId (createGame 26, submitRankings 157,
\* deleteGame 300), as its negation.
IsCreator(session, creatorId) == session.creator_id = creatorId

\* games[0].game_number + 1 of the session's games ordered by game_number
\* descending, 1 if there is none (or the query failed and games is null).
NextGameNumber(sessionId, ok) ==
    LET numbers == {g.game_number : g \in {x \in games : x.session_id = sessionId}}
    IN  IF ok /\ numbers # {}
        THEN (CHOOSE n \in numbers : \A m \in numbers : m <= n) + 1
        ELSE 1

\* The lists a caller may pass to submitRankings (line 138, no test of the
\* length): 0..MaxSubmitted entries of any players at any positions, repeated
\* ones too, listed in the order of the players' ids (the caller maps over
\* the session's member list).  The empty list comes from a direct call; its
\* insert of no rows is accepted by the table.
RankingEntries == [player_id : Players, position : 1..MaxSubmitPosition]
RankingInputs ==
    {list \in UNION {[1..n -> RankingEntries] : n \in 0..MaxSubmitted} :
        \A i, j \in DOMAIN list : i < j => list[i].player_id <= list[j].player_id}

\* What a call holds: its arguments, the rows it read, its result.  `before`
\* (the game's rows when the call started), `failed` (the first storage step
\* of the call that returned an error) and `overlapped` (another call was
\* running its storage steps at the same time) are history, read by no step.
NoCall ==
    [op |-> "none", sessionId |-> NULL, gameId |-> NULL, actorId |-> NULL,
     rankings |-> <<>>, game |-> NULL, session |-> NULL, nextGameNumber |-> NULL,
     created |-> NULL, result |-> FALSE, before |-> NULL, failed |-> "none", overlapped |-> FALSE]

GameState(gameId) ==
    [game |-> {g \in games : g.id = gameId},
     rankings |-> RankingsOfGame(gameId),
     payments |-> PaymentsOfGame(gameId),
     confirmations |-> ConfirmationsOfGame(gameId)]

InFlight(c) == pc[c] \notin {"idle", "done"}

\* A storage operation succeeds, or fails while the fault budget lasts.
Outcome(ok) ==
    /\ ok \/ nfaults < MaxFaults
    /\ nfaults' = IF ok THEN nfaults ELSE nfaults + 1

\* Client c starts a call with the record `rec` and goes to `label`.  Clients
\* are interchangeable: a call is started by the first idle one.  The call's
\* first storage step is taken with it, so the call has overlapped with
\* every call then between two of its storage steps, and they with it, also
\* when that first step is the call's only one.
Begin(c, rec, label) ==
    /\ pc[c] = "idle"
    /\ \A d \in Clients : d < c => pc[d] # "idle"
    /\ UNCHANGED localVars
    /\ ncalls < MaxCalls
    /\ ncalls' = ncalls + 1
    /\ pc' = [pc EXCEPT ![c] = label]
    /\ call' = [d \in Clients |->
                  IF d = c
                  THEN [rec EXCEPT !.overlapped = \E e \in Clients \ {c} : InFlight(e)]
                  ELSE IF InFlight(d)
                       THEN [call[d] EXCEPT !.overlapped = TRUE]
                       ELSE call[d]]

\* Client c's call goes on to `label` with its record changed to `rec`.
Goto(c, rec, label) ==
    /\ pc' = [pc EXCEPT ![c] = label]
    /\ call' = [call EXCEPT ![c] = rec]
    /\ UNCHANGED <<ncalls, localVars>>

Failed(rec, step) ==
    [rec EXCEPT !.failed = IF rec.failed = "none" THEN step ELSE rec.failed]

\* --- createGame (lines 14-56)

createGame_ReadSession(c) ==
    \E sessionId \in SessionIds, creatorId \in Players :
        LET session == SessionById(sessionId)
            rec == [NoCall EXCEPT !.op = "createGame", !.sessionId = sessionId,
                                  !.actorId = creatorId, !.session = session]
        IN  /\ nextGameId + Cardinality({d \in Clients : InFlight(d) /\ call[d].op = "createGame"})
                 <= MaxGames
            /\ \E ok \in BOOLEAN :
                /\ Outcome(ok)
                /\ IF ~ok
                   THEN Begin(c, [Failed(rec, "cg_read_session") EXCEPT !.session = NULL],
                              "done")
                   ELSE IF sessionId \notin DOMAIN sessions \/ ~IsCreator(session, creatorId)
                        THEN Begin(c, rec, "done")
                        ELSE Begin(c, rec, "cg_read_games")
            /\ UNCHANGED <<db, nextGameId, nextSessionId>>

createGame_ReadGames(c) ==
    /\ pc[c] = "cg_read_games"
    /\ \E ok \in BOOLEAN :
        /\ Outcome(ok)
        /\ Goto(c, [(IF ok THEN call[c] ELSE Failed(call[c], "cg_read_games"))
                        EXCEPT !.nextGameNumber = NextGameNumber(call[c].sessionId, ok)],
                "cg_insert")
    /\ UNCHANGED <<db, nextGameId, nextSessionId>>

createGame_Insert(c) ==
    /\ pc[c] = "cg_insert"
    /\ \E ok \in BOOLEAN :
        /\ Outcome(ok)
        /\ IF ok /\ GamesInsertAllowed(call[c].sessionId, call[c].nextGameNumber)
           THEN LET game == [id |-> nextGameId, session_id |-> call[c].sessionId,
                             game_number |-> call[c].nextGameNumber, status |-> "pending"]
                IN  /\ games' = games \cup {game}
                    /\ nextGameId' = nextGameId + 1
                    /\ Goto(c, [call[c] EXCEPT !.result = TRUE, !.created = game.id],
                            "done")
           ELSE /\ Goto(c, Failed(call[c], "cg_insert"), "done")
                /\ UNCHANGED <<games, nextGameId>>
    /\ UNCHANGED <<sessions, session_players, rankings, payments, game_confirmations,
                   nextSessionId>>

\* --- submitRankings (lines 135-217)

submitRankings_ReadGame(c) ==
    \E gameId \in GameIds, rankingList \in RankingInputs, creatorId \in Players :
        LET rec == [NoCall EXCEPT !.op = "submitRankings", !.gameId = gameId,
                                  !.actorId = creatorId]
        IN  /\ \E ok \in BOOLEAN :
                /\ Outcome(ok)
                /\ IF ~ok
                   THEN Begin(c, Failed(rec, "sr_read_game"), "done")
                   ELSE IF ~GameExists(gameId)
                   THEN Begin(c, rec, "done")
                   ELSE LET game == GameById(gameId)
                            session == sessions[game.session_id]
                        IN  IF ~IsCreator(session, creatorId)
                            THEN Begin(c, [rec EXCEPT !.game = game, !.session = session],
                                       "done")
                            ELSE Begin(c, [rec EXCEPT !.game = game, !.session = session,
                                                      !.sessionId = game.session_id,
                                                      !.rankings = rankingList,
                                                      !.before = GameState(gameId)],
                                       "sr_delete_rankings")
            /\ UNCHANGED <<db, nextGameId, nextSessionId>>

\* Mutant: a resubmission reopens the game while it replaces the rankings.
submitRankings_DeleteRankings_reopens(c) ==
    /\ pc[c] = "sr_delete_rankings"
    /\ \E ok \in BOOLEAN :
        /\ Outcome(ok)
        /\ rankings' = RankingsWithoutGame(call[c].gameId)
        /\ games' = {IF g.id = call[c].gameId
                     THEN [g EXCEPT !.status = "pending"] ELSE g : g \in games}
        /\ Goto(c, call[c], "sr_delete_payments")
    /\ UNCHANGED <<sessions, session_players, payments, game_confirmations,
                   nextGameId, nextSessionId>>

submitRankings_DeleteRankings(c) ==
    /\ pc[c] = "sr_delete_rankings"
    /\ \E ok \in BOOLEAN :
        /\ Outcome(ok)
        /\ IF ok
           THEN /\ rankings' = RankingsWithoutGame(call[c].gameId)
                /\ Goto(c, call[c], "sr_delete_payments")
           ELSE /\ UNCHANGED rankings
                /\ Goto(c, Failed(call[c], "sr_delete_rankings"), "sr_delete_payments")
    /\ UNCHANGED <<sessions, session_players, games, payments, game_confirmations,
                   nextGameId, nextSessionId>>

submitRankings_DeletePayments(c) ==
    /\ pc[c] = "sr_delete_payments"
    /\ \E ok \in BOOLEAN :
        /\ Outcome(ok)
        /\ IF ok
           THEN /\ payments' = PaymentsWithoutGame(call[c].gameId)
                /\ Goto(c, call[c], "sr_insert_rankings")
           ELSE /\ UNCHANGED payments
                /\ Goto(c, Failed(call[c], "sr_delete_payments"), "sr_insert_rankings")
    /\ UNCHANGED <<sessions, session_players, games, rankings, game_confirmations,
                   nextGameId, nextSessionId>>

submitRankings_InsertRankings(c) ==
    /\ pc[c] = "sr_insert_rankings"
    /\ \E ok \in BOOLEAN :
        /\ Outcome(ok)
        /\ IF ok /\ RankingsInsertAllowed(call[c].gameId, call[c].rankings)
           THEN /\ rankings' = rankings \cup RankingRows(call[c].gameId, call[c].rankings)
                /\ Goto(c, call[c], "sr_insert_payments")
           ELSE /\ UNCHANGED rankings
                /\ Goto(c, [Failed(call[c], "sr_insert_rankings") EXCEPT !.result = FALSE],
                        "done")
    /\ UNCHANGED <<sessions, session_players, games, payments, game_confirmations,
                   nextGameId, nextSessionId>>

submitRankings_InsertPayments(c) ==
    /\ pc[c] = "sr_insert_payments"
    /\ LET paymentList == calculatePayments(call[c].rankings, call[c].session.bet_amount)
           paymentRecords == PaymentRecords(call[c].game.session_id, call[c].gameId,
                                            paymentList)
       IN  IF Len(paymentRecords) > 0
           THEN \E ok \in BOOLEAN :
                   /\ Outcome(ok)
                   /\ IF ok /\ PaymentsInsertAllowed(call[c].game.session_id,
                                                     call[c].gameId, paymentList)
                      THEN /\ payments' = payments (+) SeqToBag(paymentRecords)
                           /\ Goto(c, call[c], "sr_update_game")
                      ELSE /\ UNCHANGED payments
                           /\ Goto(c, Failed(call[c], "sr_insert_payments"),
                                   "sr_update_game")
           ELSE /\ UNCHANGED <<payments, nfaults>>
                /\ Goto(c, call[c], "sr_update_game")
    /\ UNCHANGED <<sessions, session_players, games, rankings, game_confirmations,
                   nextGameId, nextSessionId>>

submitRankings_UpdateGame(c) ==
    /\ pc[c] = "sr_update_game"
    /\ \E ok \in BOOLEAN :
        /\ Outcome(ok)
        /\ IF ok
           THEN /\ games' = {IF g.id = call[c].gameId
                             THEN [g EXCEPT !.status = "completed"] ELSE g : g \in games}
                /\ Goto(c, [call[c] EXCEPT !.result = TRUE], "done")
           ELSE /\ UNCHANGED games
                /\ Goto(c, [Failed(call[c], "sr_update_game") EXCEPT !.result = TRUE],
                        "done")
    /\ UNCHANGED <<sessions, session_players, rankings, payments, game_confirmations,
                   nextGameId, nextSessionId>>

\* --- confirmGame (lines 222-252), unconfirmGame (lines 257-274)

\* Mutant: the call inserts without looking for an existing confirmation.
confirmGame_ReadExisting_blind(c) ==
    \E gameId \in GameIds, playerId \in Players :
        LET rec == [NoCall EXCEPT !.op = "confirmGame", !.gameId = gameId,
                                  !.actorId = playerId]
        IN  /\ Begin(c, rec, "cf_insert")
            /\ UNCHANGED <<db, nextGameId, nextSessionId, nfaults>>

confirmGame_ReadExisting(c) ==
    \E gameId \in GameIds, playerId \in Players :
        LET existing == [game_id |-> gameId, player_id |-> playerId] \in game_confirmations
            rec == [NoCall EXCEPT !.op = "confirmGame", !.gameId = gameId,
                                  !.actorId = playerId]
        IN  /\ \E ok \in BOOLEAN :
                /\ Outcome(ok)
                /\ IF ~ok
                   THEN Begin(c, Failed(rec, "cf_read_existing"), "cf_insert")
                   ELSE IF existing
                        THEN Begin(c, [rec EXCEPT !.result = TRUE], "done")
                        ELSE Begin(c, rec, "cf_insert")
            /\ UNCHANGED <<db, nextGameId, nextSessionId>>

confirmGame_Insert(c) ==
    /\ pc[c] = "cf_insert"
    /\ \E ok \in BOOLEAN :
        /\ Outcome(ok)
        /\ IF ok /\ ConfirmationInsertAllowed(call[c].gameId, call[c].actorId)
           THEN /\ game_confirmations' = game_confirmations \cup
                       {[game_id |-> call[c].gameId, player_id |-> call[c].actorId]}
                /\ Goto(c, [call[c] EXCEPT !.result = TRUE], "done")
           ELSE /\ UNCHANGED game_confirmations
                /\ Goto(c, [Failed(call[c], "cf_insert") EXCEPT !.result = FALSE], "done")
    /\ UNCHANGED <<sessions, session_players, games, rankings, payments,
                   nextGameId, nextSessionId>>

unconfirmGame(c) ==
    \E gameId \in GameIds, playerId \in Players, ok \in BOOLEAN :
        LET rec == [NoCall EXCEPT !.op = "unconfirmGame", !.gameId = gameId,
                                  !.actorId = playerId]
        IN  /\ Outcome(ok)
            /\ IF ok
               THEN /\ game_confirmations' = game_confirmations \
                           {[game_id |-> gameId, player_id |-> playerId]}
                    /\ Begin(c, [rec EXCEPT !.result = TRUE], "done")
               ELSE /\ UNCHANGED game_confirmations
                    /\ Begin(c, [Failed(rec, "unconfirm") EXCEPT !.result = FALSE], "done")
            /\ UNCHANGED <<sessions, session_players, games, rankings, payments, nextGameId, nextSessionId>>

\* --- deleteGame (lines 279-318)

deleteGame_ReadGame(c) ==
    \E gameId \in GameIds, creatorId \in Players :
        LET rec == [NoCall EXCEPT !.op = "deleteGame", !.gameId = gameId,
                                  !.actorId = creatorId]
        IN  /\ \E ok \in BOOLEAN :
                /\ Outcome(ok)
                /\ IF ~ok
                   THEN Begin(c, Failed(rec, "dg_read_game"), "done")
                   ELSE IF ~GameExists(gameId)
                   THEN Begin(c, rec, "done")
                   ELSE LET game == GameById(gameId)
                            session == sessions[game.session_id]
                        IN  IF ~IsCreator(session, creatorId)
                            THEN Begin(c, [rec EXCEPT !.game = game, !.session = session],
                                       "done")
                            ELSE Begin(c, [rec EXCEPT !.game = game, !.session = session,
                                                      !.before = GameState(gameId)],
                                       "dg_delete_confirmations")
            /\ UNCHANGED <<db, nextGameId, nextSessionId>>

deleteGame_DeleteConfirmations(c) ==
    /\ pc[c] = "dg_delete_confirmations"
    /\ \E ok \in BOOLEAN :
        /\ Outcome(ok)
        /\ IF ok
           THEN /\ game_confirmations' = ConfirmationsWithoutGame(call[c].gameId)
                /\ Goto(c, call[c], "dg_delete_rankings")
           ELSE /\ UNCHANGED game_confirmations
                /\ Goto(c, Failed(call[c], "dg_delete_confirmations"), "dg_delete_rankings")
    /\ UNCHANGED <<sessions, session_players, games, rankings, payments,
                   nextGameId, nextSessionId>>

deleteGame_DeleteRankings(c) ==
    /\ pc[c] = "dg_delete_rankings"
    /\ \E ok \in BOOLEAN :
        /\ Outcome(ok)
        /\ IF ok
           THEN /\ rankings' = RankingsWithoutGame(call[c].gameId)
                /\ Goto(c, call[c], "dg_delete_payments")
           ELSE /\ UNCHANGED rankings
                /\ Goto(c, Failed(call[c], "dg_delete_rankings"), "dg_delete_payments")
    /\ UNCHANGED <<sessions, session_players, games, payments, game_confirmations,
                   nextGameId, nextSessionId>>

deleteGame_DeletePayments(c) ==
    /\ pc[c] = "dg_delete_payments"
    /\ \E ok \in BOOLEAN :
        /\ Outcome(ok)
        /\ IF ok
           THEN /\ payments' = PaymentsWithoutGame(call[c].gameId)
                /\ Goto(c, call[c], "dg_delete_game")
           ELSE /\ UNCHANGED payments
                /\ Goto(c, Failed(call[c], "dg_delete_payments"), "dg_delete_game")
    /\ UNCHANGED <<sessions, session_players, games, rankings, game_confirmations,
                   nextGameId, nextSessionId>>

deleteGame_DeleteGame(c) ==
    /\ pc[c] = "dg_delete_game"
    /\ \E ok \in BOOLEAN :
        /\ Outcome(ok)
        /\ IF ok
           THEN /\ games' = GamesWithout(call[c].gameId)
                /\ rankings' = RankingsWithoutGame(call[c].gameId)
                /\ game_confirmations' = ConfirmationsWithoutGame(call[c].gameId)
                /\ payments' = PaymentsGameSetNull(call[c].gameId)
                /\ Goto(c, [call[c] EXCEPT !.result = TRUE], "done")
           ELSE /\ UNCHANGED <<games, rankings, game_confirmations, payments>>
                /\ Goto(c, [Failed(call[c], "dg_delete_game") EXCEPT !.result = FALSE],
                        "done")
    /\ UNCHANGED <<sessions, session_players,
                   nextGameId, nextSessionId>>

\* -------------------------------------- lib/payment.ts: marking records
\* markPaymentAsPaid (65-83), markPaymentAsUnpaid (88-106),
\* markAllPaymentsBetweenPlayersPaid (111-134)

\* new Date().toISOString(): the time of the call; the model tells a
\* timestamp from null only.
PaidAt == 1

\* .update(...).eq('id', paymentId): one copy of the row becomes `new`.
PaymentUpdated(row, new) ==
    (payments (-) SetToBag({row})) (+) SetToBag({new})

\* The rows an id can name: one row of the table, or none (an update that
\* matches no row changes nothing and is no error).
RowsById == {{}} \cup {{r} : r \in DOMAIN payments}

\* .update({is_paid, paid_at}).eq('id', paymentId), where the id names `named`.
PaymentsMarked(named, isPaid, paidAt) ==
    IF named = {} THEN payments
    ELSE LET row == CHOOSE r \in named : TRUE
         IN  PaymentUpdated(row, [row EXCEPT !.is_paid = isPaid, !.paid_at = paidAt])

\* .update({is_paid: true, paid_at}).eq('session_id').eq('from_player_id')
\* .eq('to_player_id').eq('is_paid', false)
PaymentsBetweenPaid(sessionId, fromPlayerId, toPlayerId) ==
    LET paid(r) == IF /\ r.session_id = sessionId
                      /\ r.from_player_id = fromPlayerId
                      /\ r.to_player_id = toPlayerId
                      /\ r.is_paid = FALSE
                   THEN [r EXCEPT !.is_paid = TRUE, !.paid_at = PaidAt]
                   ELSE r
        rows == {paid(r) : r \in DOMAIN payments}
    IN  [n \in rows |-> CopiesOfAll(payments, {r \in DOMAIN payments : paid(r) = n})]

\* Client c makes a call of one storage step, an update: it returns at once,
\* and the calls then running their storage steps have overlapped with it.
BeginUpdate(c, rec) == Begin(c, rec, "done")

markPaymentAsPaid(c) ==
    \E named \in RowsById, ok \in BOOLEAN :
        LET rec == [NoCall EXCEPT !.op = "markPaymentAsPaid", !.result = ok]
        IN  /\ Outcome(ok)
            /\ payments' = IF ok THEN PaymentsMarked(named, TRUE, PaidAt) ELSE payments
            /\ BeginUpdate(c, IF ok THEN rec ELSE Failed(rec, "mark_paid"))
            /\ UNCHANGED <<sessions, session_players, games, rankings,
                           game_confirmations, nextGameId, nextSessionId>>

markPaymentAsUnpaid(c) ==
    \E named \in RowsById, ok \in BOOLEAN :
        LET rec == [NoCall EXCEPT !.op = "markPaymentAsUnpaid", !.result = ok]
        IN  /\ Outcome(ok)
            /\ payments' = IF ok THEN PaymentsMarked(named, FALSE, NULL) ELSE payments
            /\ BeginUpdate(c, IF ok THEN rec ELSE Failed(rec, "mark_unpaid"))
            /\ UNCHANGED <<sessions, session_players, games, rankings,
                           game_confirmations, nextGameId, nextSessionId>>

markAllPaymentsBetweenPlayersPaid(c) ==
    \E sessionId \in SessionIds, fromPlayerId \in Players, toPlayerId \in Players,
       ok \in BOOLEAN :
        LET rec == [NoCall EXCEPT !.op = "markAllPaymentsBetweenPlayersPaid",
                                  !.sessionId = sessionId, !.result = ok]
        IN  /\ Outcome(ok)
            /\ payments' = IF ok
                           THEN PaymentsBetweenPaid(sessionId, fromPlayerId, toPlayerId)
                           ELSE payments
            /\ BeginUpdate(c, IF ok THEN rec ELSE Failed(rec, "mark_all_paid"))
            /\ UNCHANGED <<sessions, session_players, games, rankings,
                           game_confirmations, nextGameId, nextSessionId>>

\* ------------------------------------------------------- lib/session.ts

\* --- createSession (lines 17-56)

\* The insert into sessions (26-34), of a session with any creator and the
\* bet of 10.  An error returns null (36-39).
createSession_InsertSession(c) ==
    \E creatorId \in Players, ok \in BOOLEAN :
        LET session == [creator_id |-> creatorId, bet_amount |-> 10, status |-> "active"]
            rec == [NoCall EXCEPT !.op = "createSession", !.actorId = creatorId]
        IN  /\ nextSessionId \in SessionIds
            /\ Outcome(ok)
            /\ IF ok /\ SessionsInsertAllowed(session.bet_amount)
               THEN /\ sessions' = [s \in DOMAIN sessions \cup {nextSessionId} |->
                                      IF s = nextSessionId THEN session ELSE sessions[s]]
                    /\ nextSessionId' = nextSessionId + 1
                    /\ Begin(c, [rec EXCEPT !.sessionId = nextSessionId,
                                            !.session = session], "cs_insert_player")
               ELSE /\ UNCHANGED <<sessions, nextSessionId>>
                    /\ Begin(c, Failed(rec, "cs_insert_session"), "done")
            /\ UNCHANGED <<session_players, games, rankings, payments, game_confirmations,
                           nextGameId>>

\* The insert of the creator into session_players (42-46).
createSession_InsertPlayer(c) ==
    /\ pc[c] = "cs_insert_player"
    /\ \E ok \in BOOLEAN :
        /\ Outcome(ok)
        /\ IF ok /\ MembershipInsertAllowed(call[c].sessionId, call[c].actorId)
           THEN /\ session_players' = session_players \cup
                       {[session_id |-> call[c].sessionId, player_id |-> call[c].actorId,
                         is_creator |-> TRUE]}
                /\ Goto(c, [call[c] EXCEPT !.result = TRUE], "done")
           ELSE /\ UNCHANGED session_players
                /\ Goto(c, Failed(call[c], "cs_insert_player"), "cs_delete_session")
    /\ UNCHANGED <<sessions, games, rankings, payments, game_confirmations,
                   nextGameId, nextSessionId>>

\* The clean-up after the second insert failed (48-53): the delete of the
\* session, whose result is not looked at, then null.
createSession_DeleteSession(c) ==
    /\ pc[c] = "cs_delete_session"
    /\ \E ok \in BOOLEAN :
        /\ Outcome(ok)
        /\ IF ok
           THEN /\ sessions' = SessionsWithout(call[c].sessionId)
                /\ session_players' = MembershipsWithoutSession(call[c].sessionId)
                /\ games' = GamesWithoutSession(call[c].sessionId)
                /\ rankings' = RankingsWithoutSession(call[c].sessionId)
                /\ game_confirmations' = ConfirmationsWithoutSession(call[c].sessionId)
                /\ payments' = PaymentsWithoutSession(call[c].sessionId)
                /\ Goto(c, [call[c] EXCEPT !.result = FALSE], "done")
           ELSE /\ UNCHANGED db
                /\ Goto(c, [Failed(call[c], "cs_delete_session") EXCEPT !.result = FALSE],
                        "done")
    /\ UNCHANGED <<nextGameId, nextSessionId>>

\* isPlayerInSession (lines 223-236): `const { data } = ...single(); return
\* !!data`.  The error of the read is not looked at: a read that fails (ok
\* false) leaves data null and the answer is false, member or not.
isPlayerInSession(sessionId, playerId, ok) ==
    ok /\ MembershipExists(sessionId, playerId)

\* A call of isPlayerInSession: one read, whose answer is the result.
isPlayerInSession_Read(c) ==
    \E sessionId \in SessionIds, playerId \in Players, ok \in BOOLEAN :
        LET rec == [NoCall EXCEPT !.op = "isPlayerInSession", !.sessionId = sessionId,
                                  !.actorId = playerId,
                                  !.result = isPlayerInSession(sessionId, playerId, ok)]
        IN  /\ Outcome(ok)
            /\ Begin(c, IF ok THEN rec ELSE Failed(rec, "ip_read"), "done")
            /\ UNCHANGED <<db, nextGameId, nextSessionId>>

\* --- joinSession (lines 126-160), leaveSession (lines 165-182)

joinSession_ReadExisting(c) ==
    \E sessionId \in SessionIds, playerId \in Players :
        LET existing == MembershipExists(sessionId, playerId)
            rec == [NoCall EXCEPT !.op = "joinSession", !.sessionId = sessionId,
                                  !.actorId = playerId]
        IN  /\ \E ok \in BOOLEAN :
                /\ Outcome(ok)
                /\ IF ~ok
                   THEN Begin(c, Failed(rec, "js_read_existing"), "js_insert")
                   ELSE IF existing
                        THEN Begin(c, [rec EXCEPT !.result = TRUE], "done")
                        ELSE Begin(c, rec, "js_insert")
            /\ UNCHANGED <<db, nextGameId, nextSessionId>>

joinSession_Insert(c) ==
    /\ pc[c] = "js_insert"
    /\ \E ok \in BOOLEAN :
        /\ Outcome(ok)
        /\ IF ok /\ MembershipInsertAllowed(call[c].sessionId, call[c].actorId)
           THEN /\ session_players' = session_players \cup
                       {[session_id |-> call[c].sessionId, player_id |-> call[c].actorId,
                         is_creator |-> FALSE]}
                /\ Goto(c, [call[c] EXCEPT !.result = TRUE], "done")
           ELSE /\ UNCHANGED session_players
                /\ Goto(c, [Failed(call[c], "js_insert") EXCEPT !.result = FALSE], "done")
    /\ UNCHANGED <<sessions, games, rankings, payments, game_confirmations,
                   nextGameId, nextSessionId>>

leaveSession(c) ==
    \E sessionId \in SessionIds, playerId \in Players, ok \in BOOLEAN :
        LET rec == [NoCall EXCEPT !.op = "leaveSession", !.sessionId = sessionId,
                                  !.actorId = playerId]
        IN  /\ Outcome(ok)
            /\ IF ok
               THEN /\ session_players' =
                           {r \in session_players :
                               ~(r.session_id = sessionId /\ r.player_id = playerId)}
                    /\ Begin(c, [rec EXCEPT !.result = TRUE], "done")
               ELSE /\ UNCHANGED session_players
                    /\ Begin(c, [Failed(rec, "leave") EXCEPT !.result = FALSE], "done")
            /\ UNCHANGED <<sessions, games, rankings, payments, game_confirmations,
                           nextGameId, nextSessionId>>

\* --- archiveSession (lines 187-218)

archiveSession_ReadSession_anyone(c) ==
    \E sessionId \in SessionIds, playerId \in Players :
        LET session == SessionById(sessionId)
            rec == [NoCall EXCEPT !.op = "archiveSession", !.sessionId = sessionId,
                                  !.actorId = playerId, !.session = session]
        IN  /\ Begin(c, rec, "as_update")
            /\ UNCHANGED <<db, nextGameId, nextSessionId, nfaults>>

archiveSession_ReadSession(c) ==
    \E sessionId \in SessionIds, playerId \in Players :
        LET session == SessionById(sessionId)
            rec == [NoCall EXCEPT !.op = "archiveSession", !.sessionId = sessionId,
                                  !.actorId = playerId, !.session = session]
        IN  /\ \E ok \in BOOLEAN :
                /\ Outcome(ok)
                /\ IF ~ok
                   THEN Begin(c, [Failed(rec, "as_read_session") EXCEPT !.session = NULL],
                              "done")
                   ELSE IF sessionId \notin DOMAIN sessions \/ session.creator_id # playerId
                        THEN Begin(c, rec, "done")
                        ELSE Begin(c, rec, "as_update")
            /\ UNCHANGED <<db, nextGameId, nextSessionId>>

archiveSession_Update(c) ==
    /\ pc[c] = "as_update"
    /\ \E ok \in BOOLEAN :
        /\ Outcome(ok)
        /\ IF ok
           THEN /\ sessions' = [s \in DOMAIN sessions |->
                                  IF s = call[c].sessionId
                                  THEN [sessions[s] EXCEPT !.status = "archived"]
                                  ELSE sessions[s]]
                /\ Goto(c, [call[c] EXCEPT !.result = TRUE], "done")
           ELSE /\ UNCHANGED sessions
                /\ Goto(c, [Failed(call[c], "as_update") EXCEPT !.result = FALSE], "done")
    /\ UNCHANGED <<session_players, games, rankings, payments, game_confirmations,
                   nextGameId, nextSessionId>>

\* The call has returned to its caller.
Return(c) ==
    /\ pc[c] = "done"
    /\ pc' = [pc EXCEPT ![c] = "idle"]
    /\ call' = [call EXCEPT ![c] = NoCall]
    /\ UNCHANGED <<db, nextGameId, nextSessionId, ncalls, nfaults, localVars>>

\* ------------------------------------------- the lifecycle specification

\* One active session, created by player 1 with a bet of 10, and joined by
\* `members`; no games yet.
LifecycleStart(members) ==
    /\ sessions = [s \in SessionIds |->
                      [creator_id |-> 1, bet_amount |-> 10, status |-> "active"]]
    /\ session_players = {[session_id |-> s, player_id |-> p, is_creator |-> p = 1] :
                              s \in SessionIds, p \in members}
    /\ games = {}
    /\ rankings = {}
    /\ payments = EmptyBag
    /\ game_confirmations = {}
    /\ nextGameId = 1
    /\ nextSessionId = 2
    /\ pc = [c \in Clients |-> "idle"]
    /\ call = [c \in Clients |-> NoCall]
    /\ ncalls = 0
    /\ nfaults = 0

\* The session after every player has joined it.
LifecycleInit == LifecycleStart(Players)

SettleIdle ==
    /\ argRankings = <<>>
    /\ argBetAmount = 0
    /\ retPayments = <<>>
    /\ settled = FALSE

\* No pure function of the library is being called.
LocalIdle ==
    SettleIdle /\ SimplifyIdle /\ StandingsIdle /\ ProjectionIdle /\ EditorIdle

Init == LifecycleInit /\ LocalIdle

Next ==
    \/ \E c \in Clients : createGame_ReadSession(c)
    \/ \E c \in Clients : createGame_ReadGames(c)
    \/ \E c \in Clients : createGame_Insert(c)
    \/ \E c \in Clients : submitRankings_ReadGame(c)
    \/ \E c \in Clients : submitRankings_DeleteRankings(c)
    \/ \E c \in Clients : submitRankings_DeletePayments(c)
    \/ \E c \in Clients : submitRankings_InsertRankings(c)
    \/ \E c \in Clients : submitRankings_InsertPayments(c)
    \/ \E c \in Clients : submitRankings_UpdateGame(c)
    \/ \E c \in Clients : confirmGame_ReadExisting(c)
    \/ \E c \in Clients : confirmGame_Insert(c)
    \/ \E c \in Clients : unconfirmGame(c)
    \/ \E c \in Clients : deleteGame_ReadGame(c)
    \/ \E c \in Clients : deleteGame_DeleteConfirmations(c)
    \/ \E c \in Clients : deleteGame_DeleteRankings(c)
    \/ \E c \in Clients : deleteGame_DeletePayments(c)
    \/ \E c \in Clients : deleteGame_DeleteGame(c)
    \/ \E c \in Clients : Return(c)

Spec == Init /\ [][Next]_vars

\* ---------------------------------------------- the session specification

\* No session yet: empty tables.
NoSession ==
    /\ sessions = [s \in {} |-> NULL]
    /\ session_players = {}
    /\ games = {}
    /\ rankings = {}
    /\ payments = EmptyBag
    /\ game_confirmations = {}
    /\ nextGameId = 1
    /\ nextSessionId = 1
    /\ pc = [c \in Clients |-> "idle"]
    /\ call = [c \in Clients |-> NoCall]
    /\ ncalls = 0
    /\ nfaults = 0

\* Either no session exists and createSession is still to be called, or the
\* session is as a createSession by player 1 left it (lines 17-56): its
\* creator is its only member.  Players join and leave, the creator archives
\* the session and creates games, players confirm and unconfirm them.
SessionInit == (NoSession \/ LifecycleStart({1})) /\ LocalIdle

SessionNext ==
    \/ \E c \in Clients : createSession_InsertSession(c)
    \/ \E c \in Clients : createSession_InsertPlayer(c)
    \/ \E c \in Clients : createSession_DeleteSession(c)
    \/ \E c \in Clients : isPlayerInSession_Read(c)
    \/ \E c \in Clients : joinSession_ReadExisting(c)
    \/ \E c \in Clients : joinSession_Insert(c)
    \/ \E c \in Clients : leaveSession(c)
    \/ \E c \in Clients : archiveSession_ReadSession(c)
    \/ \E c \in Clients : archiveSession_Update(c)
    \/ \E c \in Clients : createGame_ReadSession(c)
    \/ \E c \in Clients : createGame_ReadGames(c)
    \/ \E c \in Clients : createGame_Insert(c)
    \/ \E c \in Clients : confirmGame_ReadExisting(c)
    \/ \E c \in Clients : confirmGame_Insert(c)
    \/ \E c \in Clients : unconfirmGame(c)
    \/ \E c \in Clients : Return(c)

SessionSpec == SessionInit /\ [][SessionNext]_vars

\* ------------------------------------------ the played-session specification

\* The rows a game holds once `first` was ranked ahead of `second` in it.
PlayedRankings(gameId, first, second) ==
    {[game_id |-> gameId, player_id |-> first, position |-> 1],
     [game_id |-> gameId, player_id |-> second, position |-> 2]}

PlayedPayments(gameId, first, second) ==
    SetToBag({[session_id |-> 1, game_id |-> gameId, from_player_id |-> second,
               to_player_id |-> first, amount |-> 10, is_paid |-> FALSE,
               paid_at |-> NULL]})

\* The session after two games were created and played.  Game 2 was finalized
\* with player 1 ahead of player 2, and player 2 confirmed it.  Game 1 is
\* pending: either nothing was submitted for it, or player 2 was ranked ahead
\* of player 1 and the status update of that submission failed, so that it
\* holds rankings and a debt.  No further game is created or submitted.
PlayedInit ==
    \E submitted \in BOOLEAN :
        /\ sessions = [s \in SessionIds |->
                          [creator_id |-> 1, bet_amount |-> 10, status |-> "active"]]
        /\ session_players = {[session_id |-> s, player_id |-> p, is_creator |-> p = 1] :
                                  s \in SessionIds, p \in Players}
        /\ games = {[id |-> 1, session_id |-> 1, game_number |-> 1, status |-> "pending"],
                    [id |-> 2, session_id |-> 1, game_number |-> 2, status |-> "completed"]}
        /\ rankings = PlayedRankings(2, 1, 2) \cup
                      (IF submitted THEN PlayedRankings(1, 2, 1) ELSE {})
        /\ payments = PlayedPayments(2, 1, 2) (+)
                      (IF submitted THEN PlayedPayments(1, 2, 1) ELSE EmptyBag)
        /\ game_confirmations = {[game_id |-> 2, player_id |-> 2]}
        /\ nextGameId = 3
        /\ nextSessionId = 2
        /\ pc = [c \in Clients |-> "idle"]
        /\ call = [c \in Clients |-> NoCall]
        /\ ncalls = 0
        /\ nfaults = 0
        /\ LocalIdle

PlayedNext ==
    \/ \E c \in Clients : confirmGame_ReadExisting(c)
    \/ \E c \in Clients : confirmGame_Insert(c)
    \/ \E c \in Clients : unconfirmGame(c)
    \/ \E c \in Clients : deleteGame_ReadGame(c)
    \/ \E c \in Clients : deleteGame_DeleteConfirmations(c)
    \/ \E c \in Clients : deleteGame_DeleteRankings(c)
    \/ \E c \in Clients : deleteGame_DeletePayments(c)
    \/ \E c \in Clients : deleteGame_DeleteGame(c)
    \/ \E c \in Clients : Return(c)

PlayedSpec == PlayedInit /\ [][PlayedNext]_vars

\* ------------------------------------------ the numbering specification

\* The session after its owner created two games, numbered 1 and 2, for
\* which nothing was submitted yet.  Games are deleted and created.
NumberingInit ==
    /\ sessions = [s \in SessionIds |->
                      [creator_id |-> 1, bet_amount |-> 10, status |-> "active"]]
    /\ session_players = {[session_id |-> s, player_id |-> p, is_creator |-> p = 1] :
                              s \in SessionIds, p \in Players}
    /\ games = {[id |-> 1, session_id |-> 1, game_number |-> 1, status |-> "pending"],
                [id |-> 2, session_id |-> 1, game_number |-> 2, status |-> "pending"]}
    /\ rankings = {}
    /\ payments = EmptyBag
    /\ game_confirmations = {}
    /\ nextGameId = 3
    /\ nextSessionId = 2
    /\ pc = [c \in Clients |-> "idle"]
    /\ call = [c \in Clients |-> NoCall]
    /\ ncalls = 0
    /\ nfaults = 0
    /\ LocalIdle

NumberingNext ==
    \/ \E c \in Clients : createGame_ReadSession(c)
    \/ \E c \in Clients : createGame_ReadGames(c)
    \/ \E c \in Clients : createGame_Insert(c)
    \/ \E c \in Clients : deleteGame_ReadGame(c)
    \/ \E c \in Clients : deleteGame_DeleteConfirmations(c)
    \/ \E c \in Clients : deleteGame_DeleteRankings(c)
    \/ \E c \in Clients : deleteGame_DeletePayments(c)
    \/ \E c \in Clients : deleteGame_DeleteGame(c)
    \/ \E c \in Clients : Return(c)

NumberingSpec == NumberingInit /\ [][NumberingNext]_vars

\* ---------------------------------------------- the paid-debts specification

\* The session after one game was created and finalized with player 1 ahead
\* of player 2; its debt is marked paid and unpaid, and the game is submitted
\* again.  The clients go on to make two more calls.
PaidInit ==
    /\ sessions = [s \in SessionIds |->
                      [creator_id |-> 1, bet_amount |-> 10, status |-> "active"]]
    /\ session_players = {[session_id |-> s, player_id |-> p, is_creator |-> p = 1] :
                              s \in SessionIds, p \in Players}
    /\ games = {[id |-> 1, session_id |-> 1, game_number |-> 1, status |-> "completed"]}
    /\ rankings = PlayedRankings(1, 1, 2)
    /\ payments = PlayedPayments(1, 1, 2)
    /\ game_confirmations = {}
    /\ nextGameId = 2
    /\ nextSessionId = 2
    /\ pc = [c \in Clients |-> "idle"]
    /\ call = [c \in Clients |-> NoCall]
    /\ ncalls = MaxCalls - 2
    /\ nfaults = 0
    /\ LocalIdle

PaidNext ==
    \/ \E c \in Clients : markPaymentAsPaid(c)
    \/ \E c \in Clients : markPaymentAsUnpaid(c)
    \/ \E c \in Clients : markAllPaymentsBetweenPlayersPaid(c)
    \/ \E c \in Clients : submitRankings_ReadGame(c)
    \/ \E c \in Clients : submitRankings_DeleteRankings(c)
    \/ \E c \in Clients : submitRankings_DeletePayments(c)
    \/ \E c \in Clients : submitRankings_InsertRankings(c)
    \/ \E c \in Clients : submitRankings_InsertPayments(c)
    \/ \E c \in Clients : submitRankings_UpdateGame(c)
    \/ \E c \in Clients : Return(c)

PaidSpec == PaidInit /\ [][PaidNext]_vars

\* -------------------------------------- the simplification specification

\* The caller collects the debt records of a session: any payer and payee,
\* any amount, paid or not.  Player ids are opaque, so the players are
\* numbered in the order in which the list first names them.
PlayersNamed(paymentList) ==
    {paymentList[i].from_player_id : i \in DOMAIN paymentList} \cup
    {paymentList[i].to_player_id : i \in DOMAIN paymentList}

FirstUnnamed(named) == Cardinality(named) + 1

SimplifyInit ==
    /\ SimplifyIdle /\ LifecycleInit /\ SettleIdle /\ StandingsIdle
    /\ ProjectionIdle /\ EditorIdle

\* The amounts of the records: whole amounts, or amounts with cents (tenths).
WholeAmounts == {Whole(k) : k \in 1..MaxDebtAmount}
CentAmounts == {Tenths(k) : k \in 1..MaxDebtAmount}

AddPayment(amounts) ==
    /\ simplifyPc = "caller"
    /\ Len(argPayments) < MaxDebtRecords
    /\ \E from \in DebtPlayers, to \in DebtPlayers,
          amount \in amounts, paid \in BOOLEAN :
        /\ from <= FirstUnnamed(PlayersNamed(argPayments))
        /\ to <= FirstUnnamed(PlayersNamed(argPayments) \cup {from})
        /\ argPayments' = Append(argPayments,
               [from_player_id |-> from, to_player_id |-> to,
                amount |-> amount, is_paid |-> paid])
    /\ UNCHANGED <<simplifyPc, debtors, creditors, debtorIdx, creditorIdx,
                   simplifiedPayments>>
    /\ UNCHANGED exceptSimplifyVars

SimplifyNext ==
    \/ AddPayment(WholeAmounts)
    \/ calculateSimplifiedBalances_Enter
    \/ calculateSimplifiedBalances_Loop
    \/ calculateSimplifiedBalances_Return

SimplifySpec == SimplifyInit /\ [][SimplifyNext]_vars

\* A call that was entered runs on: the loop body is executed while its test
\* holds, and the function returns when it fails.
SimplifyFairSpec ==
    /\ SimplifySpec
    /\ WF_vars(calculateSimplifiedBalances_Loop)
    /\ WF_vars(calculateSimplifiedBalances_Return)

\* The same with amounts that have cents.
SimplifyCentsNext ==
    \/ AddPayment(CentAmounts)
    \/ calculateSimplifiedBalances_Enter
    \/ calculateSimplifiedBalances_Loop
    \/ calculateSimplifiedBalances_Return

SimplifyCentsSpec == SimplifyInit /\ [][SimplifyCentsNext]_vars

\* ------------------------------------------- the standings specification

\* The session page hands over the members in the order they were fetched
\* (none, once every player has left, lib/session.ts leaveSession), and the
\* games as getSessionGames lists them, with their rankings and debt records.
StandingsInit ==
    /\ StandingsIdle /\ LifecycleInit /\ SettleIdle /\ SimplifyIdle
    /\ ProjectionIdle /\ EditorIdle

AddMember ==
    /\ standingsPc = "caller"
    /\ argGames = <<>>
    /\ \E m \in Members :
        /\ \A i \in DOMAIN argSessionPlayers : argSessionPlayers[i] # m
        /\ argSessionPlayers' = Append(argSessionPlayers, m)
    /\ UNCHANGED <<argGames, standingsPc, standings, leaderboard>>
    /\ UNCHANGED exceptStandingsVars

\* The ranking rows of a game, listed in the order of the players' ids: the
\* rows of any list submitRankings stores (lib/game.ts 166-175), none, one
\* or more players, members or players who have left, at distinct positions
\* with or without gaps.
StoredRankingLists ==
    {list \in UNION {[1..n -> [player_id : Members, position : 1..MaxMembers]] :
                         n \in 0..MaxMembers} :
        \A i, j \in DOMAIN list :
            i < j => /\ list[i].player_id < list[j].player_id
                     /\ list[i].position # list[j].position}

\* The debt records one submitRankings call inserts for a game of the
\* session (lib/game.ts 183-196), the bet being 10.
SubmittedDebts(gameId, rows) == PaymentRecords(1, gameId, calculatePayments(rows, 10))

\* The lists of debts a submission of a game can insert.
OtherDebtLists == {calculatePayments(r, 10) : r \in StoredRankingLists}

\* The records as inserted: none marked paid.
AsInserted(paymentList) ==
    [i \in DOMAIN paymentList |->
        [paymentList[i] EXCEPT !.is_paid = FALSE, !.paid_at = NULL]]

\* markPaymentAsPaid (lib/payment.ts 65-83) on the records at the indexes
\* `paid`.
MarkedPaid(paymentList, paid) ==
    [i \in DOMAIN paymentList |->
        IF i \in paid
        THEN [paymentList[i] EXCEPT !.is_paid = TRUE, !.paid_at = PaidAt]
        ELSE paymentList[i]]

\* The submissions whose outcome the list shows: one for each game, and one
\* more for a game that holds debts other than those of its rows.
SubmissionsListed(gameList) ==
    SumOf([i \in DOMAIN gameList |->
              IF AsInserted(gameList[i].payments) \in
                     {<<>>, SubmittedDebts(gameList[i].id, gameList[i].rankings)}
              THEN 1 ELSE 2])

\* The records of the list that are marked paid.
PaidListed(gameList) ==
    Len(SelectSeq(Flatten([i \in DOMAIN gameList |-> gameList[i].payments]),
                  LAMBDA r : r.is_paid))

\* getSessionGames (lib/game.ts 61-93) lists one more game, completed or
\* pending.  Its debts are those submitRankings inserts for its rows, or none
\* (their insert failed, lib/game.ts 197-200, or the rows give none); and
\* before or after them the debts of another submission of the game, which a
\* delete that failed left (lib/game.ts 164) or which a call running at the
\* same time inserted.  Any of the records may be marked paid.
AddGame ==
    /\ standingsPc = "caller"
    /\ Len(argGames) < MaxPlayedGames
    /\ SubmissionsListed(argGames) < MaxSubmissions
    /\ LET id == Len(argGames) + 1
           mayHoldOthers == SubmissionsListed(argGames) + 2 <= MaxSubmissions
           mayBePaid == MaxPaidDebts - PaidListed(argGames)
       IN  \E rows \in StoredRankingLists, status \in {"completed", "pending"},
              settled_ \in BOOLEAN,
              others \in (IF mayHoldOthers THEN OtherDebtLists ELSE {<<>>}),
              othersFirst \in BOOLEAN :
            LET rankingList == [i \in DOMAIN rows |->
                                   [game_id |-> id, player_id |-> rows[i].player_id,
                                    position |-> rows[i].position]]
                own == IF settled_ THEN SubmittedDebts(id, rankingList) ELSE <<>>
                left == PaymentRecords(1, id, others)
                debts == IF othersFirst THEN left \o own ELSE own \o left
            IN  \E paid \in (IF mayBePaid > 0 THEN SUBSET DOMAIN debts ELSE {{}}) :
                    /\ Cardinality(paid) <= mayBePaid
                    /\ argGames' = Append(argGames,
                           [id |-> id, status |-> status, rankings |-> rankingList,
                            payments |-> MarkedPaid(debts, paid)])
    /\ UNCHANGED <<argSessionPlayers, standingsPc, standings, leaderboard>>
    /\ UNCHANGED exceptStandingsVars

\* The page renders SessionStandings whenever the session is loaded, with
\* members or without (SessionStandings.tsx 88-89 then shows that no player
\* has joined).
ShowStandings ==
    /\ standingsPc = "caller"
    /\ standings' = SessionStandings(argSessionPlayers, argGames)
    /\ leaderboard' = calculateSessionLeaderboard(argSessionPlayers, argGames,
                          Flatten([i \in DOMAIN argGames |-> argGames[i].payments]))
    /\ standingsPc' = "returned"
    /\ UNCHANGED <<argSessionPlayers, argGames>>
    /\ UNCHANGED exceptStandingsVars

StandingsNext == AddMember \/ AddGame \/ ShowStandings

StandingsSpec == StandingsInit /\ [][StandingsNext]_vars

\* ------------------------------------------ the projection specification

\* One client with one of its hooks mounted on a session, the mutations the
\* clients make meanwhile, and the fetches the client's own callbacks issue.
ProjectionInit ==
    /\ ProjectionMounted /\ LifecycleInit /\ SettleIdle /\ SimplifyIdle
    /\ StandingsIdle /\ EditorIdle

ProjectionNext ==
    \/ Mutate
    \/ \E h \in Hooks : HandleEvent(h)
    \/ \E h \in Hooks : CallbackFetch(h)
    \/ \E h \in Hooks : RunQuery(h)
    \/ \E h \in Hooks : SetData(h)

ProjectionSpec == ProjectionInit /\ [][ProjectionNext]_vars

\* Every event is handled, every query is run and every response arrives.
ProjectionFairSpec ==
    /\ ProjectionSpec
    /\ \A h \in Hooks : /\ WF_vars(HandleEvent(h))
                        /\ WF_vars(RunQuery(h))
                        /\ WF_vars(SetData(h))

\* ---------------------------------------------- the editor specification

\* The member ids of a set, in the order of the ids.
RECURSIVE InOrder(_)
InOrder(players) ==
    IF players = {} THEN <<>>
    ELSE LET last == CHOOSE p \in players : \A q \in players : q <= p
         IN  Append(InOrder(players \ {last}), last)

\* The rows a game may hold: submitRankings stores any list the table
\* accepts (lib/game.ts 166-175), so any players at any positions, with no
\* player and no position twice (unique (game_id, player_id), unique
\* (game_id, position)); none if nothing was submitted.
SubmittedRows ==
    {rows \in SUBSET [player_id : Members, position : 1..MaxMembers] :
        \A r1, r2 \in rows : r1 # r2 => /\ r1.player_id # r2.player_id
                                         /\ r1.position # r2.position}

\* The editor is opened on a game of a session: the session has some members
\* now, and the game holds some rows (players may have joined or left since
\* they were stored).
EditorInit ==
    /\ \E current \in SUBSET Members \ {{}} :
        propSessionPlayers = InOrder(current)
    /\ propGameRankings \in SubmittedRows
    /\ editorRankings = InitialRankings
    /\ isSubmitting = FALSE
    /\ onSubmitArg = <<>>
    /\ LifecycleInit /\ SettleIdle /\ SimplifyIdle /\ StandingsIdle /\ ProjectionIdle

\* GameList renders the component again with another member list (a player
\* joined or left); the rankings state is kept (useState, lines 36-45).
sessionPlayersChanged ==
    /\ EditorOpen
    /\ \E current \in SUBSET Members \ {{}} :
        /\ propSessionPlayers # InOrder(current)
        /\ propSessionPlayers' = InOrder(current)
    /\ UNCHANGED <<propGameRankings, editorRankings, isSubmitting, onSubmitArg>>
    /\ UNCHANGED exceptEditorVars

\* GameList renders the component again with the game as fetched anew (a
\* submission was stored); the rankings state is kept.
gameChanged ==
    /\ EditorOpen
    /\ \E rows \in SubmittedRows :
        /\ propGameRankings # rows
        /\ propGameRankings' = rows
    /\ UNCHANGED <<propSessionPlayers, editorRankings, isSubmitting, onSubmitArg>>
    /\ UNCHANGED exceptEditorVars

EditorNext ==
    \/ assignPosition
    \/ clearPosition
    \/ handleSubmit
    \/ handleSubmit_Returned
    \/ onCancel
    \/ sessionPlayersChanged
    \/ gameChanged

EditorSpec == EditorInit /\ [][EditorNext]_vars

\* ------------------------------------------- the settlement specification

\* Players and positions of a ranking list.
PlayersIn(rankingList) == {rankingList[i].player_id : i \in DOMAIN rankingList}
PositionsIn(rankingList) == {rankingList[i].position : i \in DOMAIN rankingList}

SettleInit ==
    /\ argRankings = <<>>
    /\ argBetAmount \in BetAmounts
    /\ retPayments = <<>>
    /\ settled = FALSE
    /\ LifecycleInit
    /\ SimplifyIdle
    /\ StandingsIdle
    /\ ProjectionIdle
    /\ EditorIdle

\* The caller builds the argument: another player, not yet listed, with a
\* position no listed player holds.  Players are listed in the order of their
\* ids (the order of the session's member list); positions come in any order.
AddRanking ==
    /\ ~settled
    /\ Len(argRankings) < MaxRanked
    /\ \E p \in RankedPlayers, pos \in 1..MaxPosition :
        /\ \A q \in PlayersIn(argRankings) : q < p
        /\ pos \notin PositionsIn(argRankings)
        /\ argRankings' = Append(argRankings, [player_id |-> p, position |-> pos])
    /\ UNCHANGED <<argBetAmount, retPayments, settled>>
    /\ UNCHANGED exceptSettleVars

Settle ==
    /\ ~settled
    /\ retPayments' = calculatePayments(argRankings, argBetAmount)
    /\ settled' = TRUE
    /\ UNCHANGED <<argRankings, argBetAmount>>
    /\ UNCHANGED exceptSettleVars

SettleNext == AddRanking \/ Settle

SettleSpec == SettleInit /\ [][SettleNext]_vars

\* ----------------------------------------------- claims on calculatePayments

\* Net balance of a player over the returned records (received minus paid).
NetBalance(playerId) == calculatePlayerBalance(playerId, retPayments, FALSE)

RECURSIVE SumOfBalances(_)
SumOfBalances(players) ==
    IF players = {} THEN 0
    ELSE LET p == CHOOSE q \in players : TRUE
         IN  NetBalance(p) + SumOfBalances(players \ {p})

\* A call whose arguments are a ranking of at least two players (distinct
\* players, distinct positions: AddRanking builds no other list) and a
\* positive stake.
SettledRanking == settled /\ Len(argRankings) >= 2 /\ argBetAmount > 0

\* A call whose argument ranks n players at the positions 1..n.
SettledScenario(n, stake) ==
    /\ settled
    /\ Len(argRankings) = n
    /\ PositionsIn(argRankings) = 1..n
    /\ argBetAmount = stake

\* C1: for a ranking of N >= 2 distinct players with distinct positions and a
\* stake > 0, calculatePayments returns for every unordered pair of ranked
\* players exactly one record, from the player with the larger position to
\* the player with the smaller position, of exactly the stake; and it returns
\* no other record.
C1_WorsePaysBetterOncePerPair ==
    SettledRanking =>
        /\ \A i, j \in DOMAIN argRankings :
              argRankings[i].position < argRankings[j].position =>
                \E k \in DOMAIN retPayments :
                    /\ retPayments[k] =
                          [from_player_id |-> argRankings[j].player_id,
                           to_player_id   |-> argRankings[i].player_id,
                           amount         |-> argBetAmount]
                    /\ \A m \in DOMAIN retPayments :
                          {retPayments[m].from_player_id, retPayments[m].to_player_id}
                              = {argRankings[i].player_id, argRankings[j].player_id}
                          => m = k
        /\ \A k \in DOMAIN retPayments :
              \E i, j \in DOMAIN argRankings :
                  /\ argRankings[i].position < argRankings[j].position
                  /\ retPayments[k].from_player_id = argRankings[j].player_id
                  /\ retPayments[k].to_player_id = argRankings[i].player_id

\* C1's case: three players given out of position order, settled.
C1_Witness ==
    /\ SettledRanking
    /\ Len(argRankings) = 3
    /\ argRankings[1].position > argRankings[2].position
    /\ argRankings[2].position > argRankings[3].position
    /\ Len(retPayments) = 3

\* C2: a ranking of N >= 2 players with stake > 0 yields exactly N*(N-1)/2
\* records, and the net balances of the ranked players sum to zero.
C2_CountAndZeroSum ==
    SettledRanking =>
        /\ 2 * Len(retPayments) = Len(argRankings) * (Len(argRankings) - 1)
        /\ SumOfBalances(PlayersIn(argRankings)) = 0

\* C2's case: a ranking of MaxRanked players with a gap in its positions.
C2_Witness ==
    /\ SettledRanking
    /\ Len(argRankings) = MaxRanked
    /\ MaxPosition \in PositionsIn(argRankings)
    /\ 2 * Len(retPayments) = MaxRanked * (MaxRanked - 1)

\* C3: 5 players ranked 1..5 with stake 200 have the net balances
\* +800, +400, 0, -400, -800 at the positions 1..5.
C3_FivePlayers200 ==
    SettledScenario(5, 200) =>
        \A i \in DOMAIN argRankings :
            NetBalance(argRankings[i].player_id)
                = <<800, 400, 0, -400, -800>>[argRankings[i].position]

\* C3's case: the scenario, settled into its ten records.
C3_Witness == SettledScenario(5, 200) /\ Len(retPayments) = 10

\* C4 as stated: 4 players ranked 1..4 with stake 10 give 6 records, position
\* 1 nets +30, position 4 nets -30, positions 2 and 3 net 0 each.
C4_AsStated ==
    SettledScenario(4, 10) =>
        /\ Len(retPayments) = 6
        /\ \A i \in DOMAIN argRankings :
              NetBalance(argRankings[i].player_id)
                  = <<30, 0, 0, -30>>[argRankings[i].position]

\* C4 amended: 4 players ranked 1..4 with stake 10 give 6 records, and the
\* net balances are +30, +10, -10, -30 at the positions 1..4.
C4_FourPlayers10 ==
    SettledScenario(4, 10) =>
        /\ Len(retPayments) = 6
        /\ \A i \in DOMAIN argRankings :
              NetBalance(argRankings[i].player_id)
                  = <<30, 10, -10, -30>>[argRankings[i].position]

\* C4's case: the scenario, settled, the runner-up listed first.
C4_Witness ==
    /\ SettledScenario(4, 10)
    /\ argRankings[1].position = 2
    /\ retPayments # <<>>

\* ------------------------------------------------ claims on the lifecycle

\* A ranking set as section 4.1 requires it: at least 2 entries, distinct
\* players, positions an unbroken permutation of 1..N.
ValidRankingSet(rankingList) ==
    /\ Len(rankingList) >= 2
    /\ Cardinality(PlayersIn(rankingList)) = Len(rankingList)
    /\ PositionsIn(rankingList) = 1..Len(rankingList)

\* The rows of a set as a list, in some order.
RECURSIVE RowsAsList(_)
RowsAsList(rows) ==
    IF rows = {} THEN <<>>
    ELSE LET r == CHOOSE x \in rows : TRUE
         IN  <<r>> \o RowsAsList(rows \ {r})

\* The debt records settle yields for a ranking list of a game.
SettledPayments(sessionId, gameId, rankingList) ==
    SeqToBag(PaymentRecords(sessionId, gameId,
                 calculatePayments(rankingList, sessions[sessionId].bet_amount)))

\* The call a step of client c belongs to, when the step is one of c's.
StepOf(c) == pc'[c] # pc[c]
CallOfStep(c) == IF pc[c] = "idle" THEN call'[c] ELSE call[c]

\* Client c's submitRankings call, past the owner check, returns with this step.
SubmitReturns(c) ==
    /\ InFlight(c)
    /\ call[c].op = "submitRankings"
    /\ pc'[c] = "done"
    /\ ~call'[c].overlapped

\* The storage steps of submitRankings that come after it has started
\* mutating (after the prior rankings and debt records were discarded).
AfterDiscarding == {"sr_insert_rankings", "sr_insert_payments", "sr_update_game"}

\* C5: submitRankings is all-or-nothing: when a storage step of the call has
\* failed after the call started mutating, the call returns with the game's
\* rankings, debt records and status exactly as they were before the call
\* (a valid ranking set, no other call running meanwhile).
C5_SubmitAllOrNothing ==
    [][\A c \in Clients :
          (/\ SubmitReturns(c)
           /\ ValidRankingSet(call[c].rankings)
           /\ call'[c].failed \in AfterDiscarding)
          => GameState(call[c].gameId)' = call[c].before]_vars

\* C6: submitRankings called by the owner with a ranking set of fewer than 2
\* entries, a repeated player, or positions that are no unbroken permutation
\* of 1..N fails and leaves the game's rankings, debt records and status as
\* they were (no storage fault, no other call running meanwhile).
C6_InvalidRankingRejected ==
    [][\A c \in Clients :
          (SubmitReturns(c) /\ ~ValidRankingSet(call[c].rankings) /\ nfaults' = 0)
          => /\ call'[c].result = FALSE
             /\ GameState(call[c].gameId)' = call[c].before]_vars

\* Clients c and d have both returned from submitRankings calls by the owner
\* on the same game that ran at the same time, with valid ranking sets and no
\* storage fault.
BothSubmitted(c, d) ==
    /\ c # d
    /\ pc[c] = "done" /\ pc[d] = "done"
    /\ call[c].op = "submitRankings" /\ call[d].op = "submitRankings"
    /\ call[c].gameId = call[d].gameId
    /\ call[c].overlapped /\ call[d].overlapped
    /\ ValidRankingSet(call[c].rankings) /\ ValidRankingSet(call[d].rankings)
    /\ nfaults = 0

\* The game holds exactly the submission of client c: its rankings in full and
\* the debt records settle yields for them.
HoldsSubmissionOf(c) ==
    /\ RankingsOfGame(call[c].gameId) = RankingRows(call[c].gameId, call[c].rankings)
    /\ PaymentsOfGame(call[c].gameId)
          = SettledPayments(call[c].sessionId, call[c].gameId, call[c].rankings)

\* C7: once two concurrent submitRankings calls by the owner on one game have
\* both returned, the game holds the submission of exactly one of them,
\* rankings and debt records, whatever the interleaving of their storage steps.
C7_ConcurrentSubmitsLeaveOne ==
    \A c, d \in Clients :
        BothSubmitted(c, d) => (HoldsSubmissionOf(c) \/ HoldsSubmissionOf(d))

\* C8: whenever no call is running, each game that is completed or holds
\* rankings has exactly the N*(N-1)/2 debt records settle yields for its
\* persisted rankings and the session's stake.
C8_CompletedGameHasItsDebts ==
    (\A c \in Clients : ~InFlight(c)) =>
        \A g \in games :
            (g.status = "completed" \/ RankingsOfGame(g.id) # {}) =>
                LET ranked == RankingsOfGame(g.id)
                    n == Cardinality(ranked)
                IN  /\ 2 * BagCardinality(PaymentsOfGame(g.id)) = n * (n - 1)
                    /\ PaymentsOfGame(g.id)
                          = SettledPayments(g.session_id, g.id, RowsAsList(ranked))

\* The actor of a call created no session.
NotOwner(rec) == \A s \in DOMAIN sessions : sessions[s].creator_id # rec.actorId

OwnerOnly == {"createGame", "submitRankings", "deleteGame"}

\* C9: a createGame, submitRankings or deleteGame call whose actor is not the
\* owner of the session returns failure at its first step, and no step of it
\* changes a persisted row.
C9_NonOwnerChangesNothing ==
    [][\A c \in Clients :
          (StepOf(c) /\ CallOfStep(c).op \in OwnerOnly /\ NotOwner(CallOfStep(c)))
          => /\ db' = db
             /\ pc[c] = "idle" => (pc'[c] = "done" /\ call'[c].result = FALSE)]_vars

\* C9's case: a player who is not the owner has called submitRankings on a
\* completed game that holds rankings and debt records, and the call returned.
C9_Witness ==
    \E c \in Clients :
        /\ pc[c] = "done"
        /\ call[c].op = "submitRankings"
        /\ NotOwner(call[c])
        /\ call[c].result = FALSE
        /\ GameExists(call[c].gameId)
        /\ GameById(call[c].gameId).status = "completed"
        /\ RankingsOfGame(call[c].gameId) # {}
        /\ PaymentsOfGame(call[c].gameId) # EmptyBag

\* C10: deleteGame called by the owner on a game whose status is completed is
\* rejected and leaves the game, its rankings, its confirmations and its debt
\* records in place (a game with debt records, no storage fault, no other
\* call running meanwhile).
C10_DeleteCompletedRejected ==
    [][\A c \in Clients :
          (/\ InFlight(c)
           /\ call[c].op = "deleteGame"
           /\ call[c].game.status = "completed"
           /\ call[c].before.payments # EmptyBag
           /\ nfaults' = 0
           /\ pc'[c] = "done"
           /\ ~call'[c].overlapped)
          => /\ call'[c].result = FALSE
             /\ GameState(call[c].gameId)' = call[c].before]_vars

\* ------------------------------------------------------------ claim C11

\* The step with which a deleteGame call that ran alone returns.
DeleteReturns(c) ==
    /\ InFlight(c)
    /\ call[c].op = "deleteGame"
    /\ pc'[c] = "done"
    /\ ~call'[c].overlapped

\* What is stored of a game that does not exist.
NoGameState ==
    [game |-> {}, rankings |-> {}, payments |-> EmptyBag, confirmations |-> {}]

\* C11: a deleteGame call on a pending game that ran alone and reports
\* success leaves nothing of the game: no game row, no ranking, no
\* confirmation, no debt record (nor one that lost its game); and no step of
\* any deleteGame call changes another game, its number, its status or its
\* rankings, confirmations and debt records.
C11_DeletePendingRemovesOnlyIt ==
    [][\A c \in Clients :
          /\ (/\ DeleteReturns(c)
              /\ call[c].game.status = "pending"
              /\ call'[c].result = TRUE)
             => /\ GameState(call[c].gameId)' = NoGameState
                /\ PaymentsOfGame(NULL)' = PaymentsOfGame(NULL)
          /\ (StepOf(c) /\ CallOfStep(c).op = "deleteGame")
             => \A g \in GameIds \ {CallOfStep(c).gameId} :
                    GameState(g)' = GameState(g)]_vars

\* ------------------------------------------------------------ claim C12

\* The call resubmits the ranking the game holds, with the debts settled for it.
ResubmitsIdentical(rec) ==
    /\ rec.before.rankings # {}
    /\ rec.before.rankings = RankingRows(rec.gameId, rec.rankings)
    /\ rec.before.payments = SettledPayments(rec.sessionId, rec.gameId, rec.rankings)

\* C12: a submitRankings call that runs alone, submits the ranking the game
\* already holds and reports success returns with the game's rankings as
\* they were and with a bag of debt records equal to the one before the call;
\* each resubmission restores the state the first submission produced, so no
\* records accumulate or are lost however often it is repeated.
C12_ResubmitIdentical ==
    [][\A c \in Clients :
          (/\ SubmitReturns(c)
           /\ call'[c].result = TRUE
           /\ ResubmitsIdentical(call[c]))
          => /\ RankingsOfGame(call[c].gameId)' = call[c].before.rankings
             /\ PaymentsOfGame(call[c].gameId)' = call[c].before.payments]_vars

\* ------------------------------------------------------------ claim C13

\* C13: in every persisted state, also between the storage steps of a call,
\* a game whose status is pending has no ranking rows.
C13_PendingHasNoRankings ==
    \A g \in games : g.status = "pending" => RankingsOfGame(g.id) = {}

\* ------------------------------------------------------------ claim C14

\* C14: no step takes a game from completed back to pending: a game that is
\* completed before a step is, if the step leaves it in the table, completed
\* after it.
C14_CompletedStaysCompleted ==
    [][\A g \in games : \A h \in games' :
          (g.id = h.id /\ g.status = "completed") => h.status = "completed"]_vars

\* A completed game went through a whole resubmission and is completed.
C14_Witness ==
    \E c \in Clients :
        /\ pc[c] = "done"
        /\ call[c].op = "submitRankings"
        /\ call[c].sessionId # NULL
        /\ call[c].game.status = "completed"
        /\ GameExists(call[c].gameId)
        /\ GameById(call[c].gameId).status = "completed"

\* ------------------------------------------------------------ claim C15

\* The step with which a createGame call that ran alone returns the game it
\* created.
CreateReturnsGame(c) ==
    /\ pc[c] = "cg_insert"
    /\ pc'[c] = "done"
    /\ call'[c].result = TRUE
    /\ ~call'[c].overlapped

\* max(existing sequence numbers in the session) + 1, or 1 if there are none.
NumbersOfSession(sessionId) ==
    {g.game_number : g \in {x \in games : x.session_id = sessionId}}

MaxPlusOne(numbers) ==
    IF numbers = {} THEN 1
    ELSE (CHOOSE n \in numbers : \A m \in numbers : m <= n) + 1

\* C15: a createGame call by the owner that runs alone and succeeds adds one
\* game to the session; its number is the highest number among the session's
\* games plus one (1 when the session has none), its status is pending and it
\* has no rankings, no confirmations and no debt records.
C15_CreateAssignsNextNumber ==
    [][\A c \in Clients :
          CreateReturnsGame(c) =>
              \E g \in games' \ games :
                  /\ games' = games \cup {g}
                  /\ g.id = call'[c].created
                  /\ g.session_id = call[c].sessionId
                  /\ g.game_number = MaxPlusOne(NumbersOfSession(call[c].sessionId))
                  /\ g.status = "pending"
                  /\ GameState(g.id)' = [NoGameState EXCEPT !.game = {g}]]_vars

\* ------------------------------------------------------------ claim C16

\* C16: in every persisted state, under every interleaving of the steps of
\* concurrent createGame calls, no two games of a session have the same
\* sequence number.
C16_NumbersUniquePerSession ==
    \A g, h \in games :
        (g.session_id = h.session_id /\ g.game_number = h.game_number) => g = h

\* Two createGame calls overlapped and computed the same number: one stored
\* its game, the insert of the other one was refused, with no storage fault.
C16_Witness ==
    \E c \in Clients :
        /\ pc[c] = "done"
        /\ call[c].op = "createGame"
        /\ call[c].overlapped
        /\ call[c].failed = "cg_insert"
        /\ nfaults = 0
        /\ \E g \in games : /\ g.session_id = call[c].sessionId
                            /\ g.game_number = call[c].nextGameNumber

\* ------------------------------------------------------------ claim C17

\* C17: a game created after a game of the session was deleted gets a number
\* greater than the deleted game's number.  Stated for a createGame call that
\* runs alone, with no storage fault, while the client that deleted the game
\* still holds the result of its deleteGame call.
C17_DeletedNumberNotReused ==
    [][\A c, d \in Clients :
          (/\ pc[c] = "cg_insert"
           /\ pc'[c] = "done"
           /\ call'[c].result = TRUE
           /\ ~call'[c].overlapped
           /\ nfaults' = 0
           /\ pc[d] = "done"
           /\ call[d].op = "deleteGame"
           /\ call[d].result = TRUE)
          => \A old \in call[d].before.game : \A g \in games' \ games :
                 g.session_id = old.session_id => g.game_number > old.game_number]_vars

\* ------------------------------------------------------------ claim C18

\* C18: a createGame call that finds its session archived creates no game
\* and returns no game, whoever the actor is (no storage fault).
C18_CreateOnArchivedRejected ==
    [][\A c \in Clients :
          (/\ StepOf(c)
           /\ CallOfStep(c).op = "createGame"
           /\ nfaults' = 0
           /\ pc[c] # "done"
           /\ pc[c] = "idle" => CallOfStep(c).sessionId \in DOMAIN sessions
           /\ CallOfStep(c).session.status = "archived")
          => /\ games' = games
             /\ pc'[c] = "done" => call'[c].result = FALSE]_vars

\* ------------------------------------------------------------ claim C19

\* The confirmation a confirmGame or unconfirmGame call is about.
ConfirmationOf(rec) == [game_id |-> rec.gameId, player_id |-> rec.actorId]

\* The step with which a call `op` of client c that ran alone returns, in a
\* behaviour without storage faults.
ReturnsAlone(c, op) ==
    /\ pc[c] # "done"
    /\ pc'[c] = "done"
    /\ call'[c].op = op
    /\ ~call'[c].overlapped
    /\ nfaults' = 0

OnlyConfirmationChanges(k) ==
    /\ game_confirmations' \ {k} = game_confirmations \ {k}
    /\ <<sessions, session_players, games, rankings, payments>>' =
       <<sessions, session_players, games, rankings, payments>>

\* C19: a confirmGame call for an existing game reports success and leaves
\* the confirmation of its (game, player) stored, once, whether or not it was
\* stored before; an unconfirmGame call reports success and leaves it absent;
\* neither changes any other record, so a call that finds the confirmation
\* in the requested state changes nothing (calls that run alone, no storage
\* fault).
C19_ConfirmUnconfirmIdempotent ==
    [][\A c \in Clients :
          /\ (ReturnsAlone(c, "confirmGame") /\ GameExists(call'[c].gameId))
             => /\ call'[c].result = TRUE
                /\ ConfirmationOf(call'[c]) \in game_confirmations'
                /\ OnlyConfirmationChanges(ConfirmationOf(call'[c]))
          /\ ReturnsAlone(c, "unconfirmGame")
             => /\ call'[c].result = TRUE
                /\ ConfirmationOf(call'[c]) \notin game_confirmations'
                /\ OnlyConfirmationChanges(ConfirmationOf(call'[c]))]_vars

\* Two clients confirmed game 1 for the same player, one after the other:
\* both were told it succeeded and the confirmation is stored.
C19_Witness ==
    \E c, d \in Clients :
        /\ c # d
        /\ pc[c] = "done" /\ pc[d] = "done"
        /\ call[c].op = "confirmGame" /\ call[d].op = "confirmGame"
        /\ ConfirmationOf(call[c]) = ConfirmationOf(call[d])
        /\ call[c].gameId = 1
        /\ call[c].result = TRUE /\ call[d].result = TRUE
        /\ ~call[c].overlapped /\ ~call[d].overlapped
        /\ nfaults = 0
        /\ ConfirmationOf(call[c]) \in game_confirmations

\* ------------------------------------------------------------ claim C20

\* The actor of the call is not a member of the session of the call's game.
NotMember(rec) ==
    /\ GameExists(rec.gameId)
    /\ ~isPlayerInSession(GameById(rec.gameId).session_id, rec.actorId, TRUE)

MemberOnly == {"confirmGame", "unconfirmGame"}

\* C20: no step of a createGame, submitRankings or deleteGame call by a
\* player who is not the owner, and no step of a confirmGame or
\* unconfirmGame call by a player who is not a member of the game's session,
\* changes a stored record (no storage fault).
C20_UnauthorizedChangesNothing ==
    [][\A c \in Clients :
          (/\ StepOf(c)
           /\ nfaults' = 0
           /\ \/ CallOfStep(c).op \in OwnerOnly /\ NotOwner(CallOfStep(c))
              \/ CallOfStep(c).op \in MemberOnly /\ NotMember(CallOfStep(c)))
          => db' = db]_vars

\* ------------------------------------------------------------ claim C21

\* What player p receives minus what p pays over a list of simplified
\* transactions, and over the unpaid records of a list of debt records.
\* Both are sums of the numbers as they stand, not rounded.
RECURSIVE SimplifiedNet(_, _)
SimplifiedNet(list, p) ==
    IF list = <<>> THEN Zero
    ELSE ExactSum(ExactSum(IF Head(list).toPlayerId = p
                           THEN Head(list).amount ELSE Zero,
                           IF Head(list).fromPlayerId = p
                           THEN Negated(Head(list).amount) ELSE Zero),
                  SimplifiedNet(Tail(list), p))

RECURSIVE UnpaidNet(_, _)
UnpaidNet(list, p) ==
    IF list = <<>> THEN Zero
    ELSE ExactSum(ExactSum(IF ~Head(list).is_paid /\ Head(list).to_player_id = p
                           THEN Head(list).amount ELSE Zero,
                           IF ~Head(list).is_paid /\ Head(list).from_player_id = p
                           THEN Negated(Head(list).amount) ELSE Zero),
                  UnpaidNet(Tail(list), p))

\* C21: for every player, what the returned transactions give the player
\* minus what they take from the player equals the player's incoming minus
\* outgoing amounts over the unpaid records passed in; paid records count
\* for nothing.  The amounts are compared as the numbers they are.
C21_SimplificationKeepsNetBalances ==
    simplifyPc = "returned" =>
        \A p \in DebtPlayers :
            SimplifiedNet(simplifiedPayments, p) = UnpaidNet(argPayments, p)

\* ------------------------------------------------------------ claim C22

\* The distinct (payer, payee) pairs of the unpaid records of a list.
UnpaidPairs(list) ==
    {<<list[i].from_player_id, list[i].to_player_id>> :
        i \in {j \in DOMAIN list : ~list[j].is_paid}}

\* C22: the call returns at most as many transactions as there are distinct
\* (payer, payee) pairs among the unpaid records passed in.
C22_NoMoreTransactionsThanPairs ==
    simplifyPc = "returned" =>
        Len(simplifiedPayments) <= Cardinality(UnpaidPairs(argPayments))

\* ------------------------------------------------------------ claim C23

\* Entry a may stand ahead of entry b: more net profit; or as much and more
\* wins; or as much of both and an average position that is not higher.
MayPrecede(a, b) ==
    \/ a.netProfit > b.netProfit
    \/ a.netProfit = b.netProfit /\ a.wins > b.wins
    \/ a.netProfit = b.netProfit /\ a.wins = b.wins /\ ~AveragePositionLess(b, a)

RankedAsClaimed(list) ==
    \A i, j \in DOMAIN list : i < j => MayPrecede(list[i], list[j])

\* C23: the session standings list every member once, by net profit
\* descending, then by wins descending, then by lower average position:
\* both in the list the session page shows (SessionStandings) and in the
\* list calculateSessionLeaderboard returns.
C23_StandingsOrder ==
    standingsPc = "returned" =>
        /\ {standings[i].playerId : i \in DOMAIN standings} =
           {argSessionPlayers[i] : i \in DOMAIN argSessionPlayers}
        /\ Len(standings) = Len(argSessionPlayers)
        /\ RankedAsClaimed(standings)
        /\ RankedAsClaimed(leaderboard)

\* The same for the list of calculateSessionLeaderboard alone.
LeaderboardOrder ==
    standingsPc = "returned" =>
        /\ {leaderboard[i].playerId : i \in DOMAIN leaderboard} =
           {argSessionPlayers[i] : i \in DOMAIN argSessionPlayers}
        /\ Len(leaderboard) = Len(argSessionPlayers)
        /\ RankedAsClaimed(leaderboard)

\* ------------------------------------------------------------ claim C24

\* C24: once no fetch of a hook is in flight, the hook holds the result of
\* the fetch it issued last, in whatever order the responses arrived.
C24_LastIssuedWins ==
    \A h \in Hooks :
        (Mounted(h) /\ fetches[h] = {}) => projection[h].seq = issued[h]

\* ------------------------------------------------------------ claim C25

\* A query of a hook has failed: the empty list it yielded is on its way to
\* the hook.
QueryFailed == \E h \in Hooks : \E f \in fetches[h] : f.failed

\* C25: with every event handled, every fetch answered and no query failing,
\* each hook ends up holding, for good, what a fresh read of the persisted
\* rows of its scope yields.
C25_EventuallyLatest ==
    \/ <>QueryFailed
    \/ <>[](\A h \in Hooks : Mounted(h) => projection[h].data = FreshRead(h))

\* ------------------------------------------------------------ claim C26

\* The archiveSession call that client c runs in this step by a player who
\* is not the session's creator.
ArchiveByOther(c) ==
    LET rec == IF call'[c].op = "archiveSession" THEN call'[c] ELSE call[c]
    IN  /\ pc'[c] # pc[c]
        /\ rec.op = "archiveSession"
        /\ \/ rec.sessionId \notin DOMAIN sessions
           \/ rec.actorId # sessions[rec.sessionId].creator_id

\* C26: an archived session stays archived, for as long as it exists, in
\* every step of any session or game operation, and no step of an
\* archiveSession call by a player other than the creator changes a session.
C26_ArchiveTerminal ==
    [][/\ \A s \in DOMAIN sessions \cap DOMAIN sessions' :
            sessions[s].status = "archived" => sessions'[s].status = "archived"
       /\ \A c \in Clients : ArchiveByOther(c) => sessions' = sessions]_vars

\* The session is archived, and an archiveSession call by a player other than
\* the creator has returned.
C26_Witness ==
    \E c \in Clients, s \in DOMAIN sessions :
        /\ sessions[s].status = "archived"
        /\ pc[c] = "done"
        /\ call[c].op = "archiveSession"
        /\ call[c].sessionId = s
        /\ call[c].actorId # sessions[s].creator_id

\* ------------------------------------------------------------ claim C27

\* The orders in which a list of n entries can be passed.
Reorderings(n) ==
    {f \in [1..n -> 1..n] : \A i, j \in 1..n : i # j => f[i] # f[j]}

Reordered(list, f) == [i \in 1..Len(list) |-> list[f[i]]]

\* The returned records as a multiset of (payer, payee, amount).
RecordsOf(paymentList) ==
    LET Pairs == {paymentList[i] : i \in DOMAIN paymentList}
    IN  [r \in Pairs |-> Cardinality({i \in DOMAIN paymentList : paymentList[i] = r})]

\* C27: the call returns, for the list passed in any other order, the same
\* multiset of (payer, payee, amount) records, and leaves the list passed in
\* as it was.
C27_OrderIndependent ==
    [][(~settled /\ settled') =>
          /\ argRankings' = argRankings
          /\ \A f \in Reorderings(Len(argRankings)) :
                RecordsOf(calculatePayments(Reordered(argRankings, f), argBetAmount))
                    = RecordsOf(retPayments')]_vars

\* A settled list of at least three entries that is not in order of position.
C27_Witness ==
    /\ settled
    /\ Len(argRankings) >= 3
    /\ argBetAmount > 0
    /\ retPayments # <<>>
    /\ \E i \in 1..(Len(argRankings) - 1) :
          argRankings[i].position > argRankings[i + 1].position

\* ------------------------------------------------------------ claim C28

\* C28: when a submitRankings call that runs alone returns and reports
\* success, every debt record of its game is unpaid and has no paid
\* timestamp, whatever records of the game were marked paid before it.
C28_ResubmitDiscardsPaid ==
    [][\A c \in Clients :
          (/\ SubmitReturns(c)
           /\ call'[c].result = TRUE)
          => \A r \in DOMAIN PaymentsOfGame(call[c].gameId)' :
                r.is_paid = FALSE /\ r.paid_at = NULL]_vars

\* ------------------------------------------------------------ claim C29

\* No two listed players hold the same position.
PositionsDistinct ==
    \A i, j \in DOMAIN editorRankings :
        (i # j /\ editorRankings[i].position # NULL)
            => editorRankings[i].position # editorRankings[j].position

\* The list handed to onSubmit has distinct players, and positions that are
\* a permutation of 1..N for the N listed players.
HandedPermutation ==
    /\ \A i, j \in DOMAIN onSubmitArg :
          i # j => onSubmitArg[i].player_id # onSubmitArg[j].player_id
    /\ {onSubmitArg[i].position : i \in DOMAIN onSubmitArg} = 1..Len(onSubmitArg)

\* C29: in the editor no two listed players hold the same position, and the
\* list handed to onSubmit has distinct players and positions that form a
\* permutation of 1..N for the N listed players.
C29_EditorPermutation ==
    /\ PositionsDistinct
    /\ onSubmitArg # <<>> => HandedPermutation

\* The first half of the claim alone.
C29_PositionsDistinct == PositionsDistinct

\* ------------------------------------------------------------ claim C30

\* Every transaction collected so far has a positive amount, a payer whose
\* net balance over the unpaid records is negative and a payee whose net
\* balance is positive.
TransactionsSound ==
    \A i \in DOMAIN simplifiedPayments :
        LET t == simplifiedPayments[i]
        IN  /\ IsPositive(t.amount)
            /\ IsNegative(UnpaidNet(argPayments, t.fromPlayerId))
            /\ IsPositive(UnpaidNet(argPayments, t.toPlayerId))

\* No transaction pays a player to themself, and no player is both a payer
\* and a payee.
PayersAndPayeesApart ==
    \A i, j \in DOMAIN simplifiedPayments :
        simplifiedPayments[i].fromPlayerId # simplifiedPayments[j].toPlayerId

BothExhausted == debtorIdx > Len(debtors) /\ creditorIdx > Len(creditors)

\* C30: the matching loop, once entered, comes to its end with the debtor
\* list and the creditor list both exhausted, and every transaction has a
\* positive amount, a payer with a negative and a payee with a positive net
\* balance over the unpaid input, so that payers and payees are apart.
C30_GreedyLoopTerminates ==
    /\ [](TransactionsSound /\ PayersAndPayeesApart)
    /\ [](simplifyPc = "returned" => BothExhausted)
    /\ (simplifyPc = "loop") ~> (simplifyPc = "returned")

\* The loop ran three times and exhausted two debtors and two creditors.
C30_Witness ==
    /\ simplifyPc = "returned"
    /\ BothExhausted
    /\ Len(debtors) = 2
    /\ Len(creditors) = 2
    /\ Len(simplifiedPayments) = 3

====
